---- MODULE Spec2Model ----
(***************************************************************************)
(* Request-admission layer of the WeddingRSVP application:                 *)
(*   - the fixed-window rate limiter (checkRateLimit) and its store,       *)
(*   - the sliding-window limiter (AdvancedRateLimiter),                   *)
(*   - the CSRF token registry (CSRFProtector),                            *)
(*   - the origin check (verifyRequestOrigin),                             *)
(*   - the input sanitizer and the RSVP payload validator                  *)
(*     (sanitizeInput, validateRSVPData),                                  *)
(*   - the route handlers that put them together (/api/rsvp,               *)
(*     /api/guests/search, /api/admin/invites).                            *)
(* Strings that the code builds or takes apart (store keys, the            *)
(* ALLOWED_ORIGINS list) are sequences of characters or of atoms, so that  *)
(* concatenation and splitting are computed.  Times are milliseconds.      *)
(***************************************************************************)
EXTENDS Integers, Sequences, FiniteSets, TLC

VARIABLES
    now,             \* Date.now(), shared by all components
    rateLimitStore,  \* rateLimiter.ts:8, key string -> [count, resetTime]
    lastCall,        \* observation: the last checkRateLimit call, the keys
                     \*   its sweep deleted and its result
    callLog,         \* observation: per (client, config) the calls made, each
                     \*   [time, result, record stored after the call]
    nCalls,          \* number of operations performed (bounds the run)
    rlConfig,        \* the RateLimitConfig under test in RLSpec
    advConfig,       \* AdvancedRateLimiter windowSize / maxRequests
    advStore,        \* AdvancedRateLimiter.store, client -> Seq of timestamps
    advAdmitted,     \* observation: per client the times isAllowed returned true
    advLast,         \* observation: the last isAllowed call and result
    tokens,          \* CSRFProtector.tokens, token -> [token, expires]
    issued,          \* observation: every (token, issue time) generateToken returned
    nextSweepAt,     \* earliest time the setInterval callback may run next
    csrfLast,        \* observation: the last CSRFProtector operation
    env,             \* process.env: NODE_ENV and ALLOWED_ORIGINS
    originLast,      \* observation: the last verifyRequestOrigin call
    sanText,         \* the string handed to sanitizeInput next (EscapeSpec:
                     \*   the value handed to sanitizeHTML)
    sanLast,         \* observation: the last sanitizeInput call and result
    valInput,        \* the payload and options handed to validateRSVPData
    valLast,         \* observation: the last validateRSVPData result
    rateLimitDisabled, \* process.env.DISABLE_RSVP_RATE_LIMIT === 'true'
    db,              \* the SQL writes performed, in order
    httpLast,        \* observation: the last request handled, the steps its
                     \*   handler took and the response it returned
    inflight,        \* the handlers in flight: per handler where it stands,
                     \*   at an await or before its first statement, and its
                     \*   local variables
    tables           \* the invites and guests tables of the database

rlVars     == <<rateLimitStore, lastCall, callLog>>
advVars    == <<advConfig, advStore, advAdmitted, advLast>>
csrfVars   == <<tokens, issued, nextSweepAt, csrfLast>>
originVars == <<env, originLast>>
valVars    == <<sanText, sanLast, valInput, valLast>>
httpVars   == <<rateLimitDisabled, db, httpLast, inflight, tables>>
vars == <<now, nCalls, rlConfig, rlVars, advVars, csrfVars, originVars,
          valVars, httpVars>>

(***************************************************************************)
(* Bounds of the model                                                     *)
(***************************************************************************)
MaxSeconds == 2      \* fixed-window runs cover 0 .. MaxSeconds seconds
MaxLimit   == 2      \* largest maxRequests of the fixed-window test configs
MaxCalls   == 5      \* checkRateLimit calls per run
AdvMaxCalls == 4     \* isAllowed calls per run
MaxHours   == 2      \* CSRF runs cover 0 .. MaxHours token lifetimes
MaxTokens  == 2      \* tokens generateToken can draw per run
MaxEnvLen  == 3      \* length of the ALLOWED_ORIGINS value, in atoms
MaxPieces  == 3      \* pieces a sanitizeInput test string is assembled from
MaxPasses  == 3      \* successive sanitizeInput calls per run
MaxGuests  == 2      \* length of the freely drawn additionalGuests lists
MaxRequests == 2     \* HTTP requests handled per run
MaxInFlight == 3     \* handlers of rate-limited routes in flight per run
MaxSaves   == 2      \* POST /api/rsvp submissions saved per run

(***************************************************************************)
(* Generic helpers                                                         *)
(***************************************************************************)
None == [kind |-> "none"]

\* A header or environment value: null / undefined, or a string
Null == [kind |-> "null"]

Str(s) == [kind |-> "str", s |-> s]

\* f with key k set to v (a JS object / Map assignment)
Put(f, k, v) == [x \in DOMAIN f \cup {k} |-> IF x = k THEN v ELSE f[x]]

\* f without the keys in ks (JS delete)
Remove(f, ks) == [x \in DOMAIN f \ ks |-> f[x]]

Get(f, k, default) == IF k \in DOMAIN f THEN f[k] ELSE default

\* Math.ceil(a / b) for b > 0
CeilDiv(a, b) == -((-a) \div b)

DigitChars == <<"0", "1", "2", "3", "4", "5", "6", "7", "8", "9">>

\* String(n) of a non-negative integer, as template literals format it
RECURSIVE NumToString(_)
NumToString(n) ==
    IF n < 10 THEN <<DigitChars[n + 1]>>
    ELSE NumToString(n \div 10) \o <<DigitChars[(n % 10) + 1]>>

\* CSRF_CONFIG.expirationMinutes and the token lifetime in ms
ExpirationMinutes == 60

TokenLifetimeMs == ExpirationMinutes * 60 * 1000

\* setInterval(..., 5 * 60 * 1000)
SweepIntervalMs == 5 * 60 * 1000

(***************************************************************************)
(* Fixed-window limiter: src/src/lib/rateLimiter.ts                        *)
(***************************************************************************)
MsPerSecond == 1000

Config(w, m) ==
    [windowMs |-> w, maxRequests |-> m,
     skipSuccessfulRequests |-> FALSE, skipFailedRequests |-> FALSE]

RATE_LIMIT_CONFIGS ==
    [rsvp |-> [windowMs |-> 15 * 60 * 1000, maxRequests |-> 3,
               skipSuccessfulRequests |-> FALSE, skipFailedRequests |-> TRUE],
     rsvpRead |-> [windowMs |-> 1 * 60 * 1000, maxRequests |-> 120,
                   skipSuccessfulRequests |-> TRUE, skipFailedRequests |-> FALSE],
     postOperations |-> [windowMs |-> 60 * 60 * 1000, maxRequests |-> 5,
                         skipSuccessfulRequests |-> FALSE, skipFailedRequests |-> TRUE],
     guestSearch |-> [windowMs |-> 1 * 60 * 1000, maxRequests |-> 30,
                      skipSuccessfulRequests |-> FALSE, skipFailedRequests |-> FALSE]]

\* Mutant: the key leaves out maxRequests.
RateKey_NoLimit(clientId, config) ==
    clientId \o <<":">> \o NumToString(config.windowMs)

\* const key = `${clientId}:${config.windowMs}:${config.maxRequests}`
RateKey(clientId, config) ==
    clientId \o <<":">> \o NumToString(config.windowMs)
             \o <<":">> \o NumToString(config.maxRequests)

\* Mutant: the comparison is reversed.
WindowExpired_Reversed(record, t) == t < record.resetTime

\* now > record.resetTime
WindowExpired(record, t) == t > record.resetTime

\* Mutant: off by one, the limit is reached one call late.
LimitReached_OffByOne(record, config) == record.count > config.maxRequests

\* record.count >= config.maxRequests
LimitReached(record, config) == record.count >= config.maxRequests

\* Math.ceil((record.resetTime - now) / 1000)
RetryAfter(record, t) == CeilDiv(record.resetTime - t, MsPerSecond)

\* Mutant: the window length is not added to the reset time.
FreshRecord_NoWindow(config, t) == [count |-> 1, resetTime |-> t]

\* { count: 1, resetTime: now + config.windowMs }
FreshRecord(config, t) == [count |-> 1, resetTime |-> t + config.windowMs]

\* for (key in store) if (store[key].resetTime < now) delete store[key]
\* Mutant: the sweep also deletes a record whose window ends now.
cleanupExpiredEntries_Inclusive(store, t) ==
    Remove(store, {k \in DOMAIN store : store[k].resetTime <= t})

cleanupExpiredEntries(store, t) ==
    Remove(store, {k \in DOMAIN store : store[k].resetTime < t})

\* The store and the result of checkRateLimit(clientId, config) at time t on
\* `store`; `sweep` is the outcome of Math.random() < 0.01.
CheckOutcome(store, clientId, config, t, sweep) ==
    LET key    == RateKey(clientId, config)
        swept  == IF sweep THEN cleanupExpiredEntries(store, t) ELSE store
    IN  IF key \notin DOMAIN swept \/ WindowExpired(swept[key], t)
        THEN [store  |-> Put(swept, key, FreshRecord(config, t)),
              result |-> [allowed   |-> TRUE,
                          remaining |-> config.maxRequests - 1,
                          resetTime |-> t + config.windowMs]]
        ELSE IF LimitReached(swept[key], config)
        THEN [store  |-> swept,
              result |-> [allowed    |-> FALSE,
                          remaining  |-> 0,
                          resetTime  |-> swept[key].resetTime,
                          retryAfter |-> RetryAfter(swept[key], t)]]
        ELSE [store  |-> [swept EXCEPT ![key].count = @ + 1],
              result |-> [allowed   |-> TRUE,
                          remaining |-> config.maxRequests - (swept[key].count + 1),
                          resetTime |-> swept[key].resetTime]]

checkRateLimit(clientId, config, sweep) ==
    LET out    == CheckOutcome(rateLimitStore, clientId, config, now, sweep)
        triple == <<clientId, config>>
        key    == RateKey(clientId, config)
    IN  /\ nCalls < MaxCalls
        /\ nCalls' = nCalls + 1
        /\ rateLimitStore' = out.store
        /\ lastCall' = [kind     |-> "call",
                        clientId |-> clientId,
                        config   |-> config,
                        key      |-> key,
                        time     |-> now,
                        swept    |-> IF sweep
                                     THEN DOMAIN rateLimitStore
                                            \ DOMAIN cleanupExpiredEntries(rateLimitStore, now)
                                     ELSE {},
                        result   |-> out.result]
        /\ callLog' = Put(callLog, triple,
                          Append(Get(callLog, triple, <<>>),
                                 [time   |-> now,
                                  result |-> out.result,
                                  record |-> out.store[key]]))
        /\ UNCHANGED <<now, rlConfig, advVars, csrfVars, originVars, valVars, httpVars>>

\* Time passes: Date.now() moves to a later instant of `points`.
Tick(points) ==
    /\ \E t \in points : t > now /\ now' = t
    /\ UNCHANGED <<nCalls, rlConfig, rlVars, advVars, csrfVars, originVars, valVars, httpVars>>

InitBase ==
    /\ now = 0
    /\ nCalls = 0
    /\ rateLimitStore = <<>>
    /\ lastCall = None
    /\ callLog = <<>>
    /\ advStore = <<>>
    /\ advAdmitted = <<>>
    /\ advLast = None
    /\ tokens = <<>>
    /\ issued = {}
    /\ nextSweepAt = SweepIntervalMs
    /\ csrfLast = None
    /\ originLast = None
    /\ sanLast = None
    /\ valLast = None
    /\ db = <<>>
    /\ httpLast = None
    /\ inflight = <<>>
    /\ tables = [invites |-> <<>>, guests |-> <<>>]

\* No string under sanitation, no payload under validation, rate limiting on
NoPayload ==
    /\ sanText = <<>>
    /\ valInput = None
    /\ rateLimitDisabled = FALSE

InitIdle ==
    /\ InitBase
    /\ NoPayload
    /\ rlConfig = None
    /\ advConfig = None
    /\ env = [NODE_ENV |-> Str(<<"production">>), ALLOWED_ORIGINS |-> Null]

(***************************************************************************)
(* Specification RLSpec: one client and one config per run, the config     *)
(* drawn from small windows and every limit from 0.                        *)
(***************************************************************************)
RLTimes == {k * MsPerSecond + d : k \in 0..MaxSeconds, d \in {0, 1, 500}}

RLClient == <<"c">>

RLConfigs ==
    {Config(MsPerSecond, m) : m \in 0..MaxLimit} \cup {Config(2 * MsPerSecond, 1)}

RLInit ==
    /\ InitBase
    /\ NoPayload
    /\ rlConfig \in RLConfigs
    /\ advConfig = None
    /\ env = [NODE_ENV |-> Str(<<"production">>), ALLOWED_ORIGINS |-> Null]

RLCall == \E sweep \in BOOLEAN : checkRateLimit(RLClient, rlConfig, sweep)

RLTick == Tick(RLTimes)

RLNext == RLCall \/ RLTick

RLSpec == RLInit /\ [][RLNext]_vars

(***************************************************************************)
(* Fixed-window claims, stated over the call log (what a caller observes)  *)
(***************************************************************************)
RLTriples == {<<RLClient, cfg>> : cfg \in RLConfigs}

LogOf(triple) == Get(callLog, triple, <<>>)

\* The window of call i as a caller counts it: the first call opens a window
\* at its time t0; a later call opens the next one when it comes after
\* t0 + w (inclusive = TRUE: the window is [t0, t0 + w]) or at or after
\* t0 + w (inclusive = FALSE: the window is [t0, t0 + w)).
RECURSIVE WindowOf(_, _, _, _)
WindowOf(log, i, w, inclusive) ==
    IF i = 1 THEN [start |-> log[1].time, index |-> 1]
    ELSE LET p == WindowOf(log, i - 1, w, inclusive)
             over == IF inclusive THEN log[i].time > p.start + w
                                  ELSE log[i].time >= p.start + w
         IN  IF over THEN [start |-> log[i].time, index |-> 1]
                     ELSE [start |-> p.start, index |-> p.index + 1]

\* Number of allowed calls of log with a time in [a, b]
AllowedIn(log, a, b) ==
    Cardinality({i \in DOMAIN log : log[i].result.allowed /\ a <= log[i].time /\ log[i].time <= b})

\* C1: within one window [t0, t0 + windowMs] the first maxRequests calls are
\* allowed and every further call is denied with retryAfter > 0.  (Stated
\* for the configs with maxRequests >= 1, which is all a violation needs.)
C1_WindowQuota ==
    \A tr \in RLTriples : \A i \in DOMAIN LogOf(tr) :
        LET log == LogOf(tr)
            win == WindowOf(log, i, tr[2].windowMs, TRUE)
        IN  tr[2].maxRequests >= 1
            => IF win.index <= tr[2].maxRequests
               THEN log[i].result.allowed
               ELSE ~log[i].result.allowed /\ log[i].result.retryAfter > 0

\* What the code does guarantee within a window: the quota, and a positive
\* retryAfter for every denial strictly before t0 + windowMs.
C1_QuotaBeforeWindowEnd ==
    \A tr \in RLTriples : \A i \in DOMAIN LogOf(tr) :
        LET log == LogOf(tr)
            win == WindowOf(log, i, tr[2].windowMs, TRUE)
        IN  tr[2].maxRequests >= 1
            => IF win.index <= tr[2].maxRequests
               THEN log[i].result.allowed
               ELSE /\ ~log[i].result.allowed
                    /\ log[i].result.retryAfter >= 0
                    /\ (log[i].time < win.start + tr[2].windowMs
                            => log[i].result.retryAfter > 0)

\* C2 as claimed: a call at now >= t0 + windowMs is allowed and stores
\* count = 1, resetTime = now + windowMs.
C2_ResetAtOrAfterWindow ==
    \A tr \in RLTriples : \A i \in DOMAIN LogOf(tr) :
        LET log == LogOf(tr)
            w   == tr[2].windowMs
        IN  (i > 1 /\ log[i].time >= WindowOf(log, i - 1, w, FALSE).start + w)
            => /\ log[i].result.allowed
               /\ log[i].record = [count |-> 1, resetTime |-> log[i].time + w]

\* C2 amended: a call at now > t0 + windowMs is allowed, whatever happened in
\* the old window, and stores count = 1, resetTime = now + windowMs.
C2_ResetAfterWindow ==
    \A tr \in RLTriples : \A i \in DOMAIN LogOf(tr) :
        LET log == LogOf(tr)
            w   == tr[2].windowMs
        IN  (i > 1 /\ log[i].time > WindowOf(log, i - 1, w, TRUE).start + w)
            => /\ log[i].result.allowed
               /\ log[i].result.remaining = tr[2].maxRequests - 1
               /\ log[i].result.resetTime = log[i].time + w
               /\ log[i].record = [count |-> 1, resetTime |-> log[i].time + w]

\* C2 witness: a window that was exhausted (a call was denied in it) is
\* followed by an allowed call that opened a new window.
C2_Witness ==
    \E tr \in RLTriples : \E i \in DOMAIN LogOf(tr) :
        LET log == LogOf(tr)
        IN  /\ i > 1
            /\ ~log[i - 1].result.allowed
            /\ log[i].time > WindowOf(log, i - 1, tr[2].windowMs, TRUE).start + tr[2].windowMs
            /\ log[i].result.allowed

\* The count bound and the remaining report, for the configs in `cfgs`
CountBounded(cfgs) ==
    /\ \A cfg \in cfgs :
          RateKey(RLClient, cfg) \in DOMAIN rateLimitStore
              => rateLimitStore[RateKey(RLClient, cfg)].count <= cfg.maxRequests
    /\ \A cfg \in cfgs : \A i \in DOMAIN LogOf(<<RLClient, cfg>>) :
          LET e == LogOf(<<RLClient, cfg>>)[i]
          IN  e.result.allowed
                  => /\ e.result.remaining = cfg.maxRequests - e.record.count
                     /\ e.result.remaining >= 0

\* C3 as claimed: count <= maxRequests and remaining = maxRequests - count >= 0
\* for every maxRequests >= 0.
C3_CountBoundedFromZero == CountBounded(RLConfigs)

\* C3 amended: the same for every maxRequests >= 1.
C3_CountBounded == CountBounded({cfg \in RLConfigs : cfg.maxRequests >= 1})

\* C3 witness: a call was allowed that used up the last request of a limit of
\* at least 2 (count = maxRequests, remaining = 0).
C3_Witness ==
    /\ lastCall.kind = "call"
    /\ lastCall.config.maxRequests >= 2
    /\ lastCall.result.allowed
    /\ lastCall.result.remaining = 0
    /\ rateLimitStore[lastCall.key].count = lastCall.config.maxRequests

\* At most 2 * maxRequests allowed calls in any closed interval of length
\* windowMs, for the configs in `cfgs`
BurstBounded(cfgs) ==
    \A cfg \in cfgs : \A i \in DOMAIN LogOf(<<RLClient, cfg>>) :
        LET log == LogOf(<<RLClient, cfg>>)
        IN  AllowedIn(log, log[i].time, log[i].time + cfg.windowMs) <= 2 * cfg.maxRequests

\* C4 as claimed: for any key, at most 2 * maxRequests allowed calls in any
\* interval of length windowMs.
C4_BurstBoundedAnyKey == BurstBounded(RLConfigs)

\* C4 amended: the same for every key with maxRequests >= 1.
C4_BurstBounded == BurstBounded({cfg \in RLConfigs : cfg.maxRequests >= 1})

\* C4 witness: across a window boundary more than maxRequests calls were
\* allowed within one interval of length windowMs.
C4_Witness ==
    \E cfg \in RLConfigs : \E i \in DOMAIN LogOf(<<RLClient, cfg>>) :
        LET log == LogOf(<<RLClient, cfg>>)
        IN  /\ cfg.maxRequests >= 1
            /\ AllowedIn(log, log[i].time, log[i].time + cfg.windowMs) > cfg.maxRequests

\* C7: a denial reports remaining = 0 and a retryAfter, and a call at
\* (denial time + retryAfter seconds), with no allowed call in between, is
\* allowed.
C7_RetryHintSuffices ==
    \A tr \in RLTriples : \A i \in DOMAIN LogOf(tr) :
        LET log == LogOf(tr)
        IN  ~log[i].result.allowed
            => /\ log[i].result.remaining = 0
               /\ "retryAfter" \in DOMAIN log[i].result
               /\ \A j \in DOMAIN log :
                     ( /\ j > i
                       /\ log[j].time = log[i].time + log[i].result.retryAfter * MsPerSecond
                       /\ \A k \in (i + 1)..(j - 1) : ~log[k].result.allowed )
                     => log[j].result.allowed

(***************************************************************************)
(* Specification KeySpec: several clients (one with ':' and a digit in its *)
(* identity) against the endpoint buckets of RATE_LIMIT_CONFIGS.           *)
(***************************************************************************)
KeyClients == {<<"c">>, <<"c", ":", "6">>}

KeyConfigs ==
    {RATE_LIMIT_CONFIGS.rsvp, RATE_LIMIT_CONFIGS.rsvpRead, RATE_LIMIT_CONFIGS.guestSearch}

KeyTimes ==
    {0, RATE_LIMIT_CONFIGS.rsvpRead.windowMs + 1, RATE_LIMIT_CONFIGS.rsvp.windowMs + 1}

KeyTriples == {<<c, cfg>> : c \in KeyClients, cfg \in KeyConfigs}

KeyCall ==
    \E c \in KeyClients, cfg \in KeyConfigs, sweep \in BOOLEAN : checkRateLimit(c, cfg, sweep)

KeyTick == Tick(KeyTimes)

KeyNext == KeyCall \/ KeyTick

KeySpec == InitIdle /\ [][KeyNext]_vars

\* Distinct (client, windowMs, maxRequests) triples have distinct store keys.
KeysDistinct ==
    \A t1, t2 \in KeyTriples :
        t1 # t2 => RateKey(t1[1], t1[2]) # RateKey(t2[1], t2[2])

\* The step just taken was a checkRateLimit call.
IsCallStep == nCalls' = nCalls + 1 /\ lastCall'.kind = "call"

\* The result of the call just made depends on the caller's own record
\* only: it is the result the call has on a store holding nothing else.
OwnRecordDecides ==
    LET key == lastCall'.key
        own == [k \in DOMAIN rateLimitStore \cap {key} |-> rateLimitStore[k]]
    IN  lastCall'.result
            = CheckOutcome(own, lastCall'.clientId, lastCall'.config, now, FALSE).result

\* The first call of a triple is admitted whatever the other buckets hold.
FirstCallAdmitted ==
    Len(callLog'[<<lastCall'.clientId, lastCall'.config>>]) = 1
        => lastCall'.result.allowed

\* C6 as claimed: a call leaves the record of every other key as it was.
C6_OtherRecordsUntouched ==
    [][IsCallStep =>
          \A k \in DOMAIN rateLimitStore \ {lastCall'.key} :
              k \in DOMAIN rateLimitStore' /\ rateLimitStore'[k] = rateLimitStore[k]]_vars

\* C6 amended: a call creates no record but its own, changes no other
\* record's count or resetTime, and its result depends on its own record
\* only; the one effect on another key is that the sweep may delete its
\* record when that record's window has expired (resetTime < now).  The
\* first call of a triple is admitted whatever the client's other buckets
\* hold, and distinct triples have distinct keys.
C6_Isolation ==
    [][IsCallStep =>
          /\ KeysDistinct
          /\ DOMAIN rateLimitStore' \subseteq DOMAIN rateLimitStore \cup {lastCall'.key}
          /\ \A k \in DOMAIN rateLimitStore \ {lastCall'.key} :
                \/ k \in DOMAIN rateLimitStore' /\ rateLimitStore'[k] = rateLimitStore[k]
                \/ k \notin DOMAIN rateLimitStore' /\ rateLimitStore[k].resetTime < now
          /\ OwnRecordDecides
          /\ FirstCallAdmitted]_vars

\* C6 witness: a client whose rsvp bucket is exhausted and still open has
\* just been admitted by its rsvpRead or guestSearch bucket.
C6_Witness ==
    /\ lastCall.kind = "call"
    /\ lastCall.config \in {RATE_LIMIT_CONFIGS.rsvpRead, RATE_LIMIT_CONFIGS.guestSearch}
    /\ lastCall.result.allowed
    /\ LET k == RateKey(lastCall.clientId, RATE_LIMIT_CONFIGS.rsvp)
       IN  /\ k \in DOMAIN rateLimitStore
           /\ rateLimitStore[k].count >= RATE_LIMIT_CONFIGS.rsvp.maxRequests
           /\ ~WindowExpired(rateLimitStore[k], now)

(***************************************************************************)
(* Sliding-window limiter: AdvancedRateLimiter, rateLimiter.ts:160-191     *)
(***************************************************************************)
\* requests.filter(timestamp => now - timestamp < this.windowSize)
ValidRequests(requests, t, windowSize) ==
    SelectSeq(requests, LAMBDA timestamp : t - timestamp < windowSize)

\* Mutant: off by one, the limit is reached one request late.
AdvLimitReached_OffByOne(validRequests, maxRequests) == Len(validRequests) > maxRequests

\* validRequests.length >= this.maxRequests
AdvLimitReached(validRequests, maxRequests) == Len(validRequests) >= maxRequests

\* Mutant: a denied call stores its timestamp too.
AdvOutcome_RecordsDenied(store, clientId, config, t) ==
    LET validRequests == ValidRequests(Get(store, clientId, <<>>), t, config.windowSize)
    IN  [store  |-> Put(store, clientId, Append(validRequests, t)),
         result |-> ~AdvLimitReached(validRequests, config.maxRequests)]

\* The store and the result of isAllowed(clientId) at time t on `store`
AdvOutcome(store, clientId, config, t) ==
    LET requests      == Get(store, clientId, <<>>)
        validRequests == ValidRequests(requests, t, config.windowSize)
    IN  IF AdvLimitReached(validRequests, config.maxRequests)
        THEN [store |-> store, result |-> FALSE]
        ELSE [store  |-> Put(store, clientId, Append(validRequests, t)),
              result |-> TRUE]

isAllowed(clientId) ==
    LET out    == AdvOutcome(advStore, clientId, advConfig, now)
        denied == ~out.result
    IN  /\ nCalls < AdvMaxCalls
        /\ nCalls' = nCalls + 1
        /\ advStore' = out.store
        /\ advAdmitted' = IF denied THEN advAdmitted
                          ELSE Put(advAdmitted, clientId,
                                   Append(Get(advAdmitted, clientId, <<>>), now))
        /\ advLast' = [kind |-> "isAllowed", clientId |-> clientId,
                       time |-> now, result |-> ~denied]
        /\ UNCHANGED <<now, rlConfig, rlVars, advConfig, csrfVars, originVars, valVars, httpVars>>

(***************************************************************************)
(* Specification AdvSpec: one limiter built with a window and a limit      *)
(* drawn at construction, two clients.                                     *)
(***************************************************************************)
AdvClients == {"a", "b"}

AdvConfigs ==
    {[windowSize |-> w, maxRequests |-> m] :
        w \in {0, MsPerSecond, 2 * MsPerSecond}, m \in 0..MaxLimit}

\* constructor(windowSize, maxRequests): an empty store
AdvInit ==
    /\ InitBase
    /\ NoPayload
    /\ rlConfig = None
    /\ advConfig \in AdvConfigs
    /\ env = [NODE_ENV |-> Str(<<"production">>), ALLOWED_ORIGINS |-> Null]

AdvCall == \E c \in AdvClients : isAllowed(c)

AdvTimes == {k * MsPerSecond + d : k \in 0..MaxSeconds, d \in {0, 1}}

AdvTick == Tick(AdvTimes)

AdvNext == AdvCall \/ AdvTick

AdvSpec == AdvInit /\ [][AdvNext]_vars

AdvLogOf(c) == Get(advAdmitted, c, <<>>)

\* Number of calls of client c that returned true at a time in (t - w, t]
AdvAllowedIn(c, t, w) ==
    Cardinality({i \in DOMAIN AdvLogOf(c) : t - w < AdvLogOf(c)[i] /\ AdvLogOf(c)[i] <= t})

\* C5: for every client and every t, at most maxRequests calls returned true
\* at a time in (t - windowSize, t], and the stored timestamp list never
\* holds more than maxRequests entries.
C5_SlidingWindowBound ==
    \A c \in AdvClients :
        /\ \A t \in AdvTimes : AdvAllowedIn(c, t, advConfig.windowSize) <= advConfig.maxRequests
        /\ Len(Get(advStore, c, <<>>)) <= advConfig.maxRequests

\* C5 witness: a client that was admitted more than maxRequests times in all
\* has just been denied with a full list of timestamps in the window.
C5_Witness ==
    /\ advLast.kind = "isAllowed"
    /\ ~advLast.result
    /\ advConfig.maxRequests >= 1
    /\ Len(AdvLogOf(advLast.clientId)) > advConfig.maxRequests
    /\ Len(advStore[advLast.clientId]) = advConfig.maxRequests

(***************************************************************************)
(* CSRF token registry: CSRFProtector and its helpers                      *)
(***************************************************************************)
\* The hex strings crypto.getRandomValues yields in a run, in the order
\* drawn; a draw never repeats an earlier one (32 random bytes).
TokenSpace == {<<"t", i>> : i \in 1..MaxTokens}

NextToken == <<"t", Cardinality(issued) + 1>>

\* Strings no generateToken call returns: the empty string and a forgery
UnknownTokens == {<<>>, <<"x">>}

\* Mutant: a token is rejected already at its expiry instant.
verifyCSRFToken_AtExpiry(token, expires, t) == ~(token = <<>> \/ t >= expires)

\* verifyCSRFToken: if (!token || Date.now() > expires) return false
verifyCSRFToken(token, expires, t) == ~(token = <<>> \/ t > expires)

\* Mutant: the sweep removes a token already at its expiry instant.
SweepExpired_AtExpiry(csrfToken, t) == t >= csrfToken.expires

\* cleanupExpiredTokens: now > csrfToken.expires
SweepExpired(csrfToken, t) == t > csrfToken.expires

\* generateCSRFToken + tokens.set: the await resolves without suspension.
\* A token is drawn only while the run still covers its lifetime and the
\* sweep after it.
generateToken ==
    \E tok \in TokenSpace \cap {NextToken} :
        /\ now + TokenLifetimeMs + SweepIntervalMs <= MaxHours * TokenLifetimeMs + SweepIntervalMs
        /\ tokens' = Put(tokens, tok, [token |-> tok, expires |-> now + TokenLifetimeMs])
        /\ issued' = issued \cup {[token |-> tok, at |-> now]}
        /\ csrfLast' = [kind |-> "generate", token |-> tok]
        /\ UNCHANGED <<now, nCalls, rlConfig, rlVars, advVars, nextSweepAt, originVars, valVars, httpVars>>

verifyToken(token) ==
    LET found == token \in DOMAIN tokens
        valid == found /\ verifyCSRFToken(tokens[token].token, tokens[token].expires, now)
    IN  /\ tokens' = IF found /\ ~valid THEN Remove(tokens, {token}) ELSE tokens
        /\ csrfLast' = [kind   |-> "verify",
                        token  |-> token,
                        time   |-> now,
                        result |-> valid,
                        repeat |-> /\ csrfLast.kind = "verify"
                                   /\ csrfLast.token = token
                                   /\ csrfLast.result]
        /\ UNCHANGED <<now, nCalls, rlConfig, rlVars, advVars, issued, nextSweepAt, originVars, valVars, httpVars>>

\* The setInterval callback: it runs no earlier than 5 minutes after the
\* construction or its last run.
cleanupExpiredTokens ==
    /\ now >= nextSweepAt
    /\ tokens' = Remove(tokens, {t \in DOMAIN tokens : SweepExpired(tokens[t], now)})
    /\ nextSweepAt' = now + SweepIntervalMs
    /\ csrfLast' = [kind    |-> "sweep",
                    removed |-> DOMAIN tokens \ DOMAIN tokens',
                    kept    |-> DOMAIN tokens']
    /\ UNCHANGED <<now, nCalls, rlConfig, rlVars, advVars, issued, originVars, valVars, httpVars>>

(***************************************************************************)
(* Specifications CsrfSpec / CsrfLiveSpec: one CSRFProtector               *)
(***************************************************************************)
CsrfTimes ==
    {h * TokenLifetimeMs + d : h \in 0..MaxHours, d \in {0, 1, SweepIntervalMs}}

CsrfGenerate == generateToken

CsrfVerify == \E token \in TokenSpace \cup UnknownTokens : verifyToken(token)

CsrfSweep == cleanupExpiredTokens

CsrfTick == Tick(CsrfTimes)

CsrfNext == CsrfGenerate \/ CsrfVerify \/ CsrfSweep \/ CsrfTick

CsrfSpec == InitIdle /\ [][CsrfNext]_vars

\* Time passes and the interval timer keeps firing.
CsrfLiveSpec == InitIdle /\ [][CsrfNext]_vars /\ WF_vars(CsrfTick) /\ WF_vars(CsrfSweep)

IsVerifyStep == now' = now /\ csrfLast' # csrfLast /\ csrfLast'.kind = "verify"

IsSweepStep == now' = now /\ csrfLast'.kind = "sweep" /\ nextSweepAt' # nextSweepAt

C9_Frame ==
    /\ IsVerifyStep =>
          LET t == csrfLast'.token
          IN  /\ csrfLast'.result => tokens' = tokens
              /\ t \notin DOMAIN tokens => tokens' = tokens
              /\ (t \in DOMAIN tokens /\ ~csrfLast'.result)
                    => /\ now > tokens[t].expires
                       /\ tokens' = Remove(tokens, {t})
    /\ IsSweepStep =>
          tokens' = Remove(tokens, {t \in DOMAIN tokens : now > tokens[t].expires})
    /\ \A t \in DOMAIN tokens \ DOMAIN tokens' : now > tokens[t].expires
    /\ \A t \in DOMAIN tokens \cap DOMAIN tokens' : tokens'[t] = tokens[t]

Truthy(v) == v.kind = "str" /\ v.s # <<>>

HostAtoms == {"https://a.example", "https://b.example", "https://evil.example"}

\* str.split(','): the pieces between the commas, at least one
RECURSIVE SplitComma(_)
SplitComma(str) ==
    IF \A i \in DOMAIN str : str[i] # ","
    THEN <<str>>
    ELSE LET c == CHOOSE i \in DOMAIN str :
                      str[i] = "," /\ \A j \in 1..(i - 1) : str[j] # ","
         IN  <<SubSeq(str, 1, c - 1)>> \o SplitComma(SubSeq(str, c + 1, Len(str)))

\* new URL(referer).origin: scheme and host, with a port unless it is the
\* scheme's default; a string that is no absolute URL makes the constructor
\* throw a TypeError.
URLOrigin(referer) ==
    IF referer = <<>> \/ referer[1] \notin HostAtoms
    THEN [kind |-> "throw"]
    ELSE IF Len(referer) >= 2 /\ referer[2] = ":8443"
    THEN [kind |-> "value", value |-> SubSeq(referer, 1, 2)]
    ELSE [kind |-> "value", value |-> SubSeq(referer, 1, 1)]

\* process.env.ALLOWED_ORIGINS?.split(',') || []
AllowedOrigins(e) ==
    IF e.ALLOWED_ORIGINS.kind = "null" THEN <<>> ELSE SplitComma(e.ALLOWED_ORIGINS.s)

\* allowedOrigins.includes(requestOrigin)
Includes(list, x) == \E i \in DOMAIN list : list[i] = x

\* process.env.NODE_ENV === 'production'
IsProduction(e) == e.NODE_ENV.kind = "str" /\ e.NODE_ENV.s = <<"production">>

\* origin || (referer && new URL(referer).origin) || ''
RequestOrigin(origin, referer) ==
    IF Truthy(origin) THEN [kind |-> "value", value |-> origin.s]
    ELSE IF Truthy(referer) THEN URLOrigin(referer.s)
    ELSE [kind |-> "value", value |-> <<>>]

\* The outcome of verifyRequestOrigin: a returned boolean or a thrown error
VerifyOriginOutcome(origin, referer, e) ==
    LET allowedOrigins == AllowedOrigins(e)
        requestOrigin  == RequestOrigin(origin, referer)
    IN  IF IsProduction(e)
        THEN IF ~Truthy(origin) /\ ~Truthy(referer)
             THEN [kind |-> "return", value |-> FALSE]
             ELSE IF requestOrigin.kind = "throw"
             THEN [kind |-> "throw", value |-> FALSE]
             ELSE IF Len(allowedOrigins) > 0 /\ ~Includes(allowedOrigins, requestOrigin.value)
             THEN [kind |-> "return", value |-> FALSE]
             ELSE [kind |-> "return", value |-> TRUE]
        ELSE [kind |-> "return", value |-> TRUE]

verifyRequestOrigin(origin, referer) ==
    /\ originLast' = [kind    |-> "verifyRequestOrigin",
                      origin  |-> origin,
                      referer |-> referer,
                      outcome |-> VerifyOriginOutcome(origin, referer, env)]
    /\ UNCHANGED <<now, nCalls, rlConfig, rlVars, advVars, csrfVars, env, valVars, httpVars>>

(***************************************************************************)
(* Specification OriginSpec: an environment fixed at process start, then   *)
(* requests with any of the header combinations below.                     *)
(***************************************************************************)
EnvAtoms == {"https://a.example", "https://b.example", ",", " "}

EnvStrings == UNION {[1..n -> EnvAtoms] : n \in 0..MaxEnvLen}

NodeEnvs == {Null, Str(<<"production">>), Str(<<"development">>), Str(<<"test">>)}

OriginHeaders ==
    {Null, Str(<<>>), Str(<<"https://a.example">>), Str(<<"https://evil.example">>)}

RefererHeaders ==
    {Null, Str(<<>>),
     Str(<<"https://a.example", "/rsvp">>),
     Str(<<"https://b.example", ":443", "/rsvp">>),
     Str(<<"https://a.example", ":8443", "/rsvp">>),
     Str(<<"https://evil.example", "/">>),
     Str(<<"/rsvp">>)}

OriginInit ==
    /\ InitBase
    /\ NoPayload
    /\ rlConfig = None
    /\ advConfig = None
    /\ env \in [NODE_ENV : NodeEnvs,
                ALLOWED_ORIGINS : {Null} \cup {Str(s) : s \in EnvStrings}]

OriginCheck ==
    \E origin \in OriginHeaders, referer \in RefererHeaders :
        verifyRequestOrigin(origin, referer)

OriginNext == OriginCheck

OriginSpec == OriginInit /\ [][OriginNext]_vars

\* The origin the request claims: the Origin header, else the origin of the
\* Referer
DerivedOrigin(origin, referer) ==
    IF Truthy(origin) THEN origin.s ELSE URLOrigin(referer.s).value

\* The decision table applied to the last call
DecisionTable ==
    LET o == originLast.origin
        r == originLast.referer
        out == originLast.outcome
        present == Truthy(o) \/ Truthy(r)
    IN  /\ out.kind = "return"
        /\ ~IsProduction(env) => out.value
        /\ (IsProduction(env) /\ ~present) => ~out.value
        /\ (IsProduction(env) /\ present /\ env.ALLOWED_ORIGINS.kind = "str")
              => out.value = Includes(SplitComma(env.ALLOWED_ORIGINS.s), DerivedOrigin(o, r))
        /\ (IsProduction(env) /\ present /\ env.ALLOWED_ORIGINS.kind = "null")
              => out.value

\* C10: the decision table of verifyRequestOrigin.  Outside production it
\* returns true; in production it returns false without Origin and Referer,
\* with an allow-list it returns whether the derived origin is on the list,
\* and without one it returns true for any request carrying Origin or
\* Referer.
C10_DecisionTable == originLast.kind = "verifyRequestOrigin" => DecisionTable

\* The table as the code keeps it: for every request whose origin evidence
\* is not a malformed Referer alone.
C10_TableForParsableRequests ==
    originLast.kind = "verifyRequestOrigin" =>
        LET o == originLast.origin
            r == originLast.referer
        IN  (Truthy(o) \/ ~Truthy(r) \/ URLOrigin(r.s).kind = "value") => DecisionTable

(***************************************************************************)
(* sanitizeInput (security.ts).  A string is a sequence of one-character   *)
(* strings; the three replace() calls are computed as the regular          *)
(* expressions match: globally, leftmost first, without overlap.           *)
(***************************************************************************)
LowerChars ==
    <<"a", "b", "c", "d", "e", "f", "g", "h", "i", "j", "k", "l", "m",
      "n", "o", "p", "q", "r", "s", "t", "u", "v", "w", "x", "y", "z">>

UpperChars ==
    <<"A", "B", "C", "D", "E", "F", "G", "H", "I", "J", "K", "L", "M",
      "N", "O", "P", "Q", "R", "S", "T", "U", "V", "W", "X", "Y", "Z">>

SeqRange(q) == {q[i] : i \in DOMAIN q}

\* [a-zA-Z]
Letters == SeqRange(LowerChars) \cup SeqRange(UpperChars)

\* [0-9]
Digits == SeqRange(DigitChars)

\* \s, and what trim() strips
WhitespaceChars == {" ", "\t", "\n", "\r"}

\* \w
WordChars == Letters \cup Digits \cup {"_"}

\* Case folding of the i flag
ToLower(c) ==
    IF c \in SeqRange(UpperChars)
    THEN LowerChars[CHOOSE i \in DOMAIN UpperChars : UpperChars[i] = c]
    ELSE c

\* String.prototype.trim()
RECURSIVE TrimStart(_)
TrimStart(s) ==
    IF s # <<>> /\ Head(s) \in WhitespaceChars THEN TrimStart(Tail(s)) ELSE s

RECURSIVE TrimEnd(_)
TrimEnd(s) ==
    IF s # <<>> /\ s[Len(s)] \in WhitespaceChars
    THEN TrimEnd(SubSeq(s, 1, Len(s) - 1))
    ELSE s

Trim(s) == TrimEnd(TrimStart(s))

\* String.prototype.slice(0, n)
SliceTo(s, n) == IF Len(s) <= n THEN s ELSE SubSeq(s, 1, n)

SanitizeMaxLength == 1000

\* .replace(/[<>]/g, '')
RemoveAngles(s) == SelectSeq(s, LAMBDA c : c \notin {"<", ">"})

JavascriptLiteral == <<"j", "a", "v", "a", "s", "c", "r", "i", "p", "t", ":">>

\* Length of the match of /javascript:/i that starts at position i, 0 if none
JavascriptMatch(s, i) ==
    LET n == Len(JavascriptLiteral)
    IN  IF i + n - 1 <= Len(s)
           /\ \A k \in 1..n : ToLower(s[i + k - 1]) = JavascriptLiteral[k]
        THEN n
        ELSE 0

\* s without the characters at the positions of `covered`
DropPositions(s, covered) ==
    LET indexed == [i \in DOMAIN s |-> [i |-> i, c |-> s[i]]]
        kept    == SelectSeq(indexed, LAMBDA p : p.i \notin covered)
    IN  [k \in DOMAIN kept |-> kept[k].c]

\* .replace(/javascript:/gi, '').  No occurrence overlaps another (the
\* literal has no proper prefix that is also a suffix), so the global
\* replace removes every occurrence.
RemoveJavascript(s) ==
    LET starts == {i \in DOMAIN s : JavascriptMatch(s, i) > 0}
    IN  DropPositions(s, UNION {i..(i + JavascriptMatch(s, i) - 1) : i \in starts})

\* Number of consecutive characters of `set` from position i on
RECURSIVE RunLength(_, _, _)
RunLength(s, i, set) ==
    IF i <= Len(s) /\ s[i] \in set THEN 1 + RunLength(s, i + 1, set) ELSE 0

\* Length of the match of /on\w+\s*=/i that starts at position i, 0 if none.
\* \w+ and \s* are greedy, and giving characters back never helps: the
\* character after a shorter \w+ is a word character, neither \s nor '='.
OnHandlerMatch(s, i) ==
    IF i + 1 <= Len(s) /\ ToLower(s[i]) = "o" /\ ToLower(s[i + 1]) = "n"
    THEN LET w  == RunLength(s, i + 2, WordChars)
             sp == RunLength(s, i + 2 + w, WhitespaceChars)
             e  == i + 2 + w + sp
         IN  IF w >= 1 /\ e <= Len(s) /\ s[e] = "=" THEN e - i + 1 ELSE 0
    ELSE 0

\* .replace(/on\w+\s*=/gi, '').  The global replace takes the leftmost match,
\* then the leftmost match after its end.  A match that starts inside an
\* earlier one starts in its \w+ run and ends at the same '=', so the
\* characters removed are those covered by any match.
RemoveOnHandlers(s) ==
    LET starts == {i \in DOMAIN s : OnHandlerMatch(s, i) > 0}
    IN  DropPositions(s, UNION {i..(i + OnHandlerMatch(s, i) - 1) : i \in starts})

\* sanitizeInput(input): '' for a non-string, else trim, slice, and the three
\* removals in the order of the code
sanitizeInput(input) ==
    IF input.kind # "str" THEN <<>>
    ELSE RemoveOnHandlers(
           RemoveJavascript(
             RemoveAngles(SliceTo(Trim(input.s), SanitizeMaxLength))))

\* One call of sanitizeInput on the current text; the result becomes the text
\* of the next call
sanitizeCall ==
    LET out == sanitizeInput(Str(sanText))
    IN  /\ Get(sanLast, "pass", 0) < MaxPasses
        /\ sanLast' = [kind   |-> "sanitizeInput",
                       input  |-> sanText,
                       output |-> out,
                       pass   |-> Get(sanLast, "pass", 0) + 1]
        /\ sanText' = out
        /\ UNCHANGED <<now, nCalls, rlConfig, rlVars, advVars, csrfVars,
                       originVars, valInput, valLast, httpVars>>

(***************************************************************************)
(* Specification SanitizeSpec: a string assembled from the pieces below is *)
(* sanitized, and the result sanitized again.                              *)
(***************************************************************************)
SanPieces ==
    {<<"<">>, <<">">>, <<" ">>, <<"a">>, <<"=">>,
     <<"o", "n">>, <<"O", "N", "x">>,
     <<"j", "a", "v", "a">>, <<"J", "a", "v", "a">>,
     <<"s", "c", "r", "i", "p", "t", ":">>}

RECURSIVE Concat(_)
Concat(parts) == IF parts = <<>> THEN <<>> ELSE Head(parts) \o Concat(Tail(parts))

SanInputs == {Concat(ps) : ps \in UNION {[1..n -> SanPieces] : n \in 0..MaxPieces}}

SanInit ==
    /\ InitBase
    /\ sanText \in SanInputs
    /\ valInput = None
    /\ rateLimitDisabled = FALSE
    /\ rlConfig = None
    /\ advConfig = None
    /\ env = [NODE_ENV |-> Str(<<"production">>), ALLOWED_ORIGINS |-> Null]

SanNext == sanitizeCall

SanitizeSpec == SanInit /\ [][SanNext]_vars

\* C20: sanitizeInput is idempotent.  Every call whose input is itself a
\* result of sanitizeInput returns its input unchanged.
C20_Idempotent ==
    (sanLast.kind = "sanitizeInput" /\ sanLast.pass >= 2)
        => sanLast.output = sanLast.input

\* What one call does guarantee: the result carries no angle bracket.
C20_NoAngleBrackets ==
    sanLast.kind = "sanitizeInput" =>
        \A i \in DOMAIN sanLast.output : sanLast.output[i] \notin {"<", ">"}

(***************************************************************************)
(* sanitizeHTML (security.ts): six replace() calls in a row, each over the *)
(* result of the one before.  The replacement strings are those of the     *)
(* source text: the first four patterns are replaced by the character      *)
(* they match, the apostrophe and the slash by a numeric entity.           *)
(***************************************************************************)
\* String.prototype.replace(/ch/g, rep) over a sequence of characters
RECURSIVE ReplaceAll(_, _, _)
ReplaceAll(s, ch, rep) ==
    IF s = <<>> THEN <<>>
    ELSE (IF Head(s) = ch THEN rep ELSE <<Head(s)>>) \o ReplaceAll(Tail(s), ch, rep)

ApostropheEntity == <<"&", "#", "x", "2", "7", ";">>

SlashEntity == <<"&", "#", "x", "2", "F", ";">>

sanitizeHTML(input) ==
    IF input.kind # "str" THEN <<>>
    ELSE ReplaceAll(
           ReplaceAll(
             ReplaceAll(
               ReplaceAll(
                 ReplaceAll(
                   ReplaceAll(input.s, "&", <<"&">>),
                   "<", <<"<">>),
                 ">", <<">">>),
               "\"", <<"\"">>),
             "'", ApostropheEntity),
           "/", SlashEntity)

\* One call of sanitizeHTML on the current value
sanitizeHTMLCall ==
    /\ sanLast = None
    /\ sanLast' = [kind   |-> "sanitizeHTML",
                   input  |-> sanText,
                   output |-> sanitizeHTML(sanText)]
    /\ UNCHANGED <<now, nCalls, rlConfig, rlVars, advVars, csrfVars,
                   originVars, sanText, valInput, valLast, httpVars>>

(***************************************************************************)
(* Specification EscapeSpec: sanitizeHTML is called once on a value that   *)
(* is not a string or on a string assembled from the pieces below.         *)
(***************************************************************************)
EscPieces ==
    {<<"&">>, <<"<">>, <<">">>, <<"\"">>, <<"'">>, <<"/">>, <<"a">>,
     <<"&", "l", "t", ";">>}

EscInputs ==
    {[kind |-> "null"], [kind |-> "other"]}
    \cup {[kind |-> "str", s |-> Concat(ps)] :
            ps \in UNION {[1..n -> EscPieces] : n \in 0..MaxPieces}}

EscInit ==
    /\ InitBase
    /\ sanText \in EscInputs
    /\ valInput = None
    /\ rateLimitDisabled = FALSE
    /\ rlConfig = None
    /\ advConfig = None
    /\ env = [NODE_ENV |-> Str(<<"production">>), ALLOWED_ORIGINS |-> Null]

EscNext == sanitizeHTMLCall

EscapeSpec == EscInit /\ [][EscNext]_vars

\* The HTML entity of a character, the character itself if it has none
EntityOf(c) ==
    CASE c = "&"  -> <<"&", "a", "m", "p", ";">>
      [] c = "<"  -> <<"&", "l", "t", ";">>
      [] c = ">"  -> <<"&", "g", "t", ";">>
      [] c = "\"" -> <<"&", "q", "u", "o", "t", ";">>
      [] c = "'"  -> ApostropheEntity
      [] c = "/"  -> SlashEntity
      [] OTHER    -> <<c>>

Escaped(chars) == Concat([i \in DOMAIN chars |-> EntityOf(chars[i])])

Entities == {EntityOf(c) : c \in {"&", "<", ">", "\"", "'", "/"}}

EntityAt(chars, i) ==
    \E e \in Entities :
        i + Len(e) - 1 <= Len(chars) /\ SubSeq(chars, i, i + Len(e) - 1) = e

\* No <, >, ", ' or / in the text, and every & begins an entity
NoRawSpecial(chars) ==
    \A i \in DOMAIN chars :
        /\ chars[i] \notin {"<", ">", "\"", "'", "/"}
        /\ chars[i] = "&" => EntityAt(chars, i)

\* C21: sanitizeHTML returns '' for a value that is not a string, and for a
\* string it returns the text with each of & < > " ' / replaced by its
\* entity (each input character encoded once), so that none of them is left
\* raw in the result.
C21_EscapesAll ==
    sanLast.kind = "sanitizeHTML" =>
        IF sanLast.input.kind # "str" THEN sanLast.output = <<>>
        ELSE /\ sanLast.output = Escaped(sanLast.input.s)
             /\ NoRawSpecial(sanLast.output)

\* What holds: '' for a value that is not a string; no raw apostrophe or
\* slash in the result; the other characters are returned as they came
C21_EscapesApostropheAndSlash ==
    sanLast.kind = "sanitizeHTML" =>
        IF sanLast.input.kind # "str" THEN sanLast.output = <<>>
        ELSE /\ \A i \in DOMAIN sanLast.output : sanLast.output[i] \notin {"'", "/"}
             /\ sanLast.output =
                  Concat([i \in DOMAIN sanLast.input.s |->
                            IF sanLast.input.s[i] \in {"'", "/"}
                            THEN EntityOf(sanLast.input.s[i])
                            ELSE <<sanLast.input.s[i]>>])

(***************************************************************************)
(* Field validators and validateRSVPData (security.ts).  A raw payload     *)
(* field is undefined (Null), a string (Str), an array (Arr) or a value of *)
(* another type (Other); an array element is an object (Obj) or not.       *)
(* Error messages are sequences of strings, so that the per-guest          *)
(* messages are built as the template literals build them.                 *)
(***************************************************************************)
Other == [kind |-> "other"]

Arr(items) == [kind |-> "arr", items |-> items]

Obj(id, name, dietaryNotes) ==
    [kind |-> "obj", id |-> id, name |-> name, dietaryNotes |-> dietaryNotes]

NameMaxLength == 100

GuestCountMax == 20

DietaryNotesMaxLength == 500

MessageMaxLength == 300

\* VALIDATION_CONFIG.name.pattern: /^[a-zA-Z\s\-\'\.]+$/
NameChars == Letters \cup WhitespaceChars \cup {"-", "'", "."}

\* VALIDATION_CONFIG.dietaryNotes.allowedChars
DietaryChars ==
    Letters \cup Digits \cup WhitespaceChars
        \cup {"-", ":", ";", "'", ",", ".", "/", "(", ")", "&"}

\* VALIDATION_CONFIG.message.allowedChars
MessageChars ==
    Letters \cup Digits \cup WhitespaceChars \cup {"-", ",", ".", "!", "?", "(", ")"}

\* RegExp.test for /^[class]+$/
TestAll(s, class) == s # <<>> /\ \A i \in DOMAIN s : s[i] \in class

Valid == [isValid |-> TRUE, error |-> <<>>]

Invalid(msg) == [isValid |-> FALSE, error |-> msg]

NameRequiredMessage == <<"Name is required">>

NameLengthMessage == <<"Name must be less than 100 characters">>

NamePatternMessage ==
    <<"Name can only contain letters, spaces, hyphens, apostrophes, and periods">>

DietaryLengthMessage == <<"Dietary notes must be less than 500 characters">>

DietaryCharsMessage == <<"Dietary notes contain invalid characters">>

MessageLengthMessage == <<"Message must be less than 300 characters">>

MessageCharsMessage == <<"Message contains invalid characters">>

AttendingMessage == <<"Please select if you will attend">>

NotAttendingGuestsMessage == <<"Additional guests can only be added when attending">>

GuestCountMessage == <<"You can RSVP up to 20 guests including yourself">>

validateName(name) ==
    LET sanitized == sanitizeInput(Str(name))
    IN  IF sanitized = <<>> THEN Invalid(NameRequiredMessage)
        ELSE IF Len(sanitized) > NameMaxLength THEN Invalid(NameLengthMessage)
        ELSE IF ~TestAll(sanitized, NameChars) THEN Invalid(NamePatternMessage)
        ELSE Valid

validateDietaryNotes(notes) ==
    IF Trim(notes) = <<>> THEN Valid
    ELSE LET sanitized == sanitizeInput(Str(notes))
         IN  IF Len(sanitized) > DietaryNotesMaxLength
             THEN Invalid(DietaryLengthMessage)
             ELSE IF ~TestAll(sanitized, DietaryChars)
             THEN Invalid(DietaryCharsMessage)
             ELSE Valid

validateMessage(message) ==
    IF Trim(message) = <<>> THEN Valid
    ELSE LET sanitized == sanitizeInput(Str(message))
         IN  IF Len(sanitized) > MessageMaxLength
             THEN Invalid(MessageLengthMessage)
             ELSE IF ~TestAll(sanitized, MessageChars)
             THEN Invalid(MessageCharsMessage)
             ELSE Valid

\* typeof v === 'string' ? v : ''
StringOrEmpty(v) == IF v.kind = "str" THEN v ELSE Str(<<>>)

\* JS truthiness of a payload value
TruthyValue(v) ==
    CASE v.kind = "null" -> FALSE
      [] v.kind = "str"  -> v.s # <<>>
      [] OTHER           -> TRUE

MAX_ADDITIONAL_GUESTS_NoPrimary == GuestCountMax

MAX_ADDITIONAL_GUESTS == GuestCountMax - 1

\* The callback of .map() over the submitted guests
SanitizeGuest(guest) ==
    LET safeGuest == IF guest.kind = "obj" THEN guest ELSE Obj(Null, Null, Null)
    IN  [id           |-> IF safeGuest.id.kind = "str" THEN safeGuest.id ELSE Null,
         name         |-> sanitizeInput(StringOrEmpty(safeGuest.name)),
         dietaryNotes |-> sanitizeInput(StringOrEmpty(safeGuest.dietaryNotes))]

\* Array.isArray(x) ? x.slice(0, MAX_ADDITIONAL_GUESTS).map(...) : []
SanitizeGuests(additionalGuests) ==
    IF additionalGuests.kind # "arr" THEN <<>>
    ELSE LET kept == SliceTo(additionalGuests.items, MAX_ADDITIONAL_GUESTS)
         IN  [i \in DOMAIN kept |-> SanitizeGuest(kept[i])]

\* The coercion of data.attending
CoerceStatus(rawAttending) ==
    IF rawAttending.kind = "str"
       /\ rawAttending.s \in {<<"ATTENDING">>, <<"NOT_ATTENDING">>, <<"UNSELECTED">>}
    THEN rawAttending.s
    ELSE <<"UNSELECTED">>

\* The messages the forEach over the sanitized guests pushes for guest i
GuestMessages(guest, i) ==
    LET label == <<"Guest ">> \o NumToString(i)
        nameV == validateName(guest.name)
        dietV == validateDietaryNotes(guest.dietaryNotes)
    IN  (IF guest.name = <<>> THEN <<label \o <<" name is required">>>>
         ELSE IF ~nameV.isValid THEN <<label \o <<": ">> \o nameV.error>>
         ELSE <<>>)
        \o (IF ~dietV.isValid THEN <<label \o <<": ">> \o dietV.error>> ELSE <<>>)

RECURSIVE GuestErrors(_, _)
GuestErrors(guests, i) ==
    IF i > Len(guests) THEN <<>>
    ELSE GuestMessages(guests[i], i) \o GuestErrors(guests, i + 1)

RequireAttendance_Always(options) == TRUE

\* options.requireAttendance, with the default of an omitted argument
RequireAttendance(options) == options \in {"omitted", "true"}

\* errors[key] = msg when the check failed
WithError(errors, failed, key, msg) == IF failed THEN Put(errors, key, msg) ELSE errors

validateRSVPData(data, options) ==
    LET rawAdditionalGuestCount ==
            IF data.additionalGuests.kind = "arr"
            THEN Len(data.additionalGuests.items) ELSE 0
        sanitizedAdditionalGuests == SanitizeGuests(data.additionalGuests)
        status       == CoerceStatus(data.attending)
        id           == IF TruthyValue(data.id) THEN data.id ELSE Null
        name         == sanitizeInput(StringOrEmpty(data.name))
        dietaryNotes == sanitizeInput(StringOrEmpty(data.dietaryNotes))
        message      == sanitizeInput(StringOrEmpty(data.message))
        nameValidation    == validateName(name)
        dietaryValidation == validateDietaryNotes(dietaryNotes)
        messageValidation == validateMessage(message)
        stripped     == status # <<"ATTENDING">> /\ Len(sanitizedAdditionalGuests) > 0
        guestErrors  ==
            GuestErrors(sanitizedAdditionalGuests, 1)
            \o (IF stripped THEN <<NotAttendingGuestsMessage>> ELSE <<>>)
            \o (IF rawAdditionalGuestCount > MAX_ADDITIONAL_GUESTS
                THEN <<GuestCountMessage>> ELSE <<>>)
        additionalGuests == IF stripped THEN <<>> ELSE sanitizedAdditionalGuests
        e1 == WithError(<<>>, ~nameValidation.isValid, "name", nameValidation.error)
        e2 == WithError(e1, ~dietaryValidation.isValid, "dietaryNotes",
                        dietaryValidation.error)
        e3 == WithError(e2, ~messageValidation.isValid, "message",
                        messageValidation.error)
        e4 == WithError(e3, RequireAttendance(options) /\ status = <<"UNSELECTED">>,
                        "attending", AttendingMessage)
        errors == WithError(e4, Len(guestErrors) > 0, "additionalGuests",
                            IF Len(guestErrors) > 0 THEN guestErrors[1] ELSE <<>>)
        primary == [id |-> id, name |-> name, dietNotes |-> dietaryNotes,
                    status |-> status]
        plusOnes ==
            IF status = <<"ATTENDING">>
            THEN [i \in DOMAIN additionalGuests |->
                    [id        |-> additionalGuests[i].id,
                     name      |-> additionalGuests[i].name,
                     dietNotes |-> additionalGuests[i].dietaryNotes,
                     status    |-> <<"ATTENDING">>]]
            ELSE <<>>
    IN  [isValid |-> DOMAIN errors = {},
         errors  |-> errors,
         sanitizedData |->
             [id               |-> id,
              name             |-> name,
              attending        |-> status,
              dietaryNotes     |-> dietaryNotes,
              message          |-> message,
              additionalGuests |-> additionalGuests,
              guests           |-> <<primary>> \o plusOnes]]

\* One call of validateRSVPData on the payload under test
validateCall ==
    /\ valLast = None
    /\ valLast' = [kind    |-> "validateRSVPData",
                   data    |-> valInput.data,
                   options |-> valInput.options,
                   result  |-> validateRSVPData(valInput.data, valInput.options)]
    /\ UNCHANGED <<now, nCalls, rlConfig, rlVars, advVars, csrfVars, originVars,
                   sanText, sanLast, valInput, httpVars>>

(***************************************************************************)
(* Specification ValidateSpec: one payload per run, every field drawn from *)
(* the values below, validated once.                                       *)
(***************************************************************************)
Repeat(x, n) == [i \in 1..n |-> x]

NameValues ==
    {Null, Str(<<>>), Str(<<"A", "l">>), Str(<<"<", "A", "l", ">">>),
     Str(<<"A", "1">>), Str(Repeat("a", NameMaxLength + 1))}

AttendingValues ==
    {Null, Other, Str(<<"ATTENDING">>), Str(<<"NOT_ATTENDING">>),
     Str(<<"UNSELECTED">>), Str(<<"MAYBE">>)}

DietaryValues == {Null, Str(<<"n", "o", " ", "n", "u", "t", "s">>), Str(<<"#">>)}

MessageValues == {Null, Str(<<"h", "i", "!">>), Str(<<"@">>)}

IdValues == {Null, Str(<<"g", "1">>)}

GoodGuest == Obj(Null, Str(<<"B", "o">>), Null)

GuestValues ==
    {GoodGuest,
     Obj(Str(<<"g", "2">>), Str(<<>>), Str(<<"v", "e", "g", "a", "n">>)),
     Obj(Null, Str(<<"B", "0">>), Str(<<"#">>))}

\* Lists around the cap: the cap, one more, and the 25 of the example; all
\* good guests, or with a guest that fails validation in front; and a list
\* with an element that is not an object
SpecialLists ==
    {<<Other, GoodGuest>>} \cup
    {Repeat(GoodGuest, n) : n \in {MAX_ADDITIONAL_GUESTS, MAX_ADDITIONAL_GUESTS + 1,
                                    MAX_ADDITIONAL_GUESTS + 6}}
    \cup {<<Obj(Null, Str(<<>>), Null)>> \o Repeat(GoodGuest, MAX_ADDITIONAL_GUESTS)}

AdditionalGuestsValues ==
    {Null, Other}
    \cup {Arr(l) : l \in UNION {[1..n -> GuestValues] : n \in 0..MaxGuests}}
    \cup {Arr(l) : l \in SpecialLists}

OptionsValues == {"omitted", "true", "false"}

Payloads ==
    [id : IdValues, name : NameValues, attending : AttendingValues,
     dietaryNotes : DietaryValues, message : MessageValues,
     additionalGuests : AdditionalGuestsValues]

ValInit ==
    /\ InitBase
    /\ sanText = <<>>
    /\ valInput \in [data : Payloads, options : OptionsValues]
    /\ rateLimitDisabled = FALSE
    /\ rlConfig = None
    /\ advConfig = None
    /\ env = [NODE_ENV |-> Str(<<"production">>), ALLOWED_ORIGINS |-> Null]

ValNext == validateCall

ValidateSpec == ValInit /\ [][ValNext]_vars

(***************************************************************************)
(* Validator claims, stated over the last validateRSVPData call            *)
(***************************************************************************)
Validated == valLast.kind = "validateRSVPData"

\* A submitted guest that passes the per-guest validators
IsValidGuest(guest) ==
    /\ guest.kind = "obj"
    /\ guest.name.kind = "str"
    /\ validateName(sanitizeInput(guest.name)).isValid
    /\ validateDietaryNotes(sanitizeInput(StringOrEmpty(guest.dietaryNotes))).isValid

\* The primary fields of the payload pass their validators
PrimaryFieldsValid(data) ==
    /\ validateName(sanitizeInput(StringOrEmpty(data.name))).isValid
    /\ validateDietaryNotes(sanitizeInput(StringOrEmpty(data.dietaryNotes))).isValid
    /\ validateMessage(sanitizeInput(StringOrEmpty(data.message))).isValid

\* The case of C15: valid primary fields, NOT_ATTENDING, and a non-empty list
\* of valid guests within the cap
DecliningWithPlusOnes ==
    /\ Validated
    /\ PrimaryFieldsValid(valLast.data)
    /\ valLast.data.attending = Str(<<"NOT_ATTENDING">>)
    /\ valLast.data.additionalGuests.kind = "arr"
    /\ Len(valLast.data.additionalGuests.items) \in 1..MAX_ADDITIONAL_GUESTS
    /\ \A i \in DOMAIN valLast.data.additionalGuests.items :
           IsValidGuest(valLast.data.additionalGuests.items[i])

\* C15: a declining payload with valid fields and valid plus-ones is
\* stripped of its plus-ones without failing: additionalGuests is empty,
\* guests has length 1 and isValid is true.
C15_StripsWithoutFailing ==
    DecliningWithPlusOnes =>
        /\ valLast.result.sanitizedData.additionalGuests = <<>>
        /\ Len(valLast.result.sanitizedData.guests) = 1
        /\ valLast.result.isValid

\* The stripping alone, which the code performs
C15_StripsPlusOnes ==
    DecliningWithPlusOnes =>
        /\ valLast.result.sanitizedData.additionalGuests = <<>>
        /\ Len(valLast.result.sanitizedData.guests) = 1

Statuses == {<<"ATTENDING">>, <<"NOT_ATTENDING">>, <<"UNSELECTED">>}

\* C16: shape of sanitizedData.guests for every input and every option.  The
\* list is never empty; element 0 is the primary guest with the sanitized
\* name, dietary notes and coerced status; for ATTENDING the rest is
\* sanitizedData.additionalGuests in order, each with status ATTENDING;
\* otherwise the list has length 1; it never has more than 20 elements.
C16_GuestListShape ==
    Validated =>
        LET sd     == valLast.result.sanitizedData
            guests == sd.guests
            raw    == valLast.data.attending
        IN  /\ Len(guests) >= 1
            /\ guests[1].name = sd.name
            /\ guests[1].name = sanitizeInput(StringOrEmpty(valLast.data.name))
            /\ guests[1].dietNotes = sd.dietaryNotes
            /\ guests[1].dietNotes = sanitizeInput(StringOrEmpty(valLast.data.dietaryNotes))
            /\ guests[1].status = sd.attending
            /\ guests[1].status \in Statuses
            /\ (raw.kind = "str" /\ raw.s \in Statuses) => guests[1].status = raw.s
            /\ ~(raw.kind = "str" /\ raw.s \in Statuses)
                   => guests[1].status = <<"UNSELECTED">>
            /\ sd.attending = <<"ATTENDING">> =>
                   /\ Len(guests) = 1 + Len(sd.additionalGuests)
                   /\ \A i \in DOMAIN sd.additionalGuests :
                          /\ guests[i + 1].name = sd.additionalGuests[i].name
                          /\ guests[i + 1].dietNotes = sd.additionalGuests[i].dietaryNotes
                          /\ guests[i + 1].id = sd.additionalGuests[i].id
                          /\ guests[i + 1].status = <<"ATTENDING">>
            /\ sd.attending # <<"ATTENDING">> => Len(guests) = 1
            /\ Len(guests) <= GuestCountMax

\* An attending payload with more guests than the cap, validated to a full list
C16_Witness ==
    /\ Validated
    /\ valLast.data.additionalGuests.kind = "arr"
    /\ Len(valLast.data.additionalGuests.items) > GuestCountMax
    /\ valLast.result.sanitizedData.attending = <<"ATTENDING">>
    /\ Len(valLast.result.sanitizedData.guests) = GuestCountMax

\* The case of C17: an attending payload with more than 19 additional guests
OverCap ==
    /\ Validated
    /\ valLast.data.additionalGuests.kind = "arr"
    /\ Len(valLast.data.additionalGuests.items) > MAX_ADDITIONAL_GUESTS
    /\ valLast.data.attending = Str(<<"ATTENDING">>)

\* C17: when more than 19 additional guests are submitted, the sanitized
\* additionalGuests holds the first 19 entries, isValid is false, and the
\* error under the additionalGuests key is the guest-count message.  Stated
\* for attending payloads, where no plus-one is stripped.
C17_CapReported ==
    OverCap =>
        /\ valLast.result.sanitizedData.additionalGuests
             = [i \in 1..MAX_ADDITIONAL_GUESTS |->
                  SanitizeGuest(valLast.data.additionalGuests.items[i])]
        /\ ~valLast.result.isValid
        /\ "additionalGuests" \in DOMAIN valLast.result.errors
        /\ valLast.result.errors["additionalGuests"] = GuestCountMessage

\* What the code does keep when the cap is exceeded: 19 entries and a failure
C17_CapRejected ==
    OverCap =>
        /\ Len(valLast.result.sanitizedData.additionalGuests) = MAX_ADDITIONAL_GUESTS
        /\ ~valLast.result.isValid
        /\ "additionalGuests" \in DOMAIN valLast.result.errors

\* A sanitized guest fails its validators
GuestFails(guest) ==
    \/ ~validateName(guest.name).isValid
    \/ ~validateDietaryNotes(guest.dietaryNotes).isValid

\* The additionalGuests field fails: a kept guest fails, plus-ones come with
\* a status other than ATTENDING, or more than 19 were submitted
AdditionalGuestsFail ==
    LET raw    == valLast.data.additionalGuests
        kept   == SanitizeGuests(raw)
        status == valLast.result.sanitizedData.attending
    IN  \/ \E i \in DOMAIN kept : GuestFails(kept[i])
        \/ status # <<"ATTENDING">> /\ Len(kept) > 0
        \/ raw.kind = "arr" /\ Len(raw.items) > MAX_ADDITIONAL_GUESTS

\* C18: field errors are collected independently.  Each failing field among
\* name, dietaryNotes, message, attending and additionalGuests has its own
\* key in errors; the attending key is present iff requireAttendance is true
\* and the coerced status is UNSELECTED; isValid is true iff errors has no
\* keys; an empty name with UNSELECTED and requireAttendance yields both the
\* name and the attending error.
C18_IndependentErrors ==
    Validated =>
        LET r      == valLast.result
            sd     == r.sanitizedData
            keys   == DOMAIN r.errors
            needed == valLast.options \in {"omitted", "true"}
        IN  /\ keys \subseteq {"name", "dietaryNotes", "message", "attending",
                               "additionalGuests"}
            /\ "name" \in keys <=> ~validateName(sd.name).isValid
            /\ "dietaryNotes" \in keys <=> ~validateDietaryNotes(sd.dietaryNotes).isValid
            /\ "message" \in keys <=> ~validateMessage(sd.message).isValid
            /\ "attending" \in keys <=> (needed /\ sd.attending = <<"UNSELECTED">>)
            /\ "additionalGuests" \in keys <=> AdditionalGuestsFail
            /\ r.isValid <=> keys = {}
            /\ (valLast.data.name = Str(<<>>) /\ needed
                /\ valLast.data.attending = Str(<<"UNSELECTED">>))
                   => (~r.isValid /\ {"name", "attending"} \subseteq keys)

\* Every field fails at once, each under its own key
C18_Witness ==
    /\ Validated
    /\ valLast.data.name = Str(<<>>)
    /\ valLast.data.attending = Str(<<"UNSELECTED">>)
    /\ valLast.options = "true"
    /\ ~valLast.result.isValid
    /\ DOMAIN valLast.result.errors
         = {"name", "dietaryNotes", "message", "attending", "additionalGuests"}

(***************************************************************************)
(* Route handlers: POST and GET /api/rsvp, GET /api/guests/search and      *)
(* POST /api/admin/invites.  A request carries the headers the handlers    *)
(* read, its body, and what the database answers to the handler's reads.   *)
(* A handler records the components it consults, in order, the SQL writes  *)
(* it performs and the response it returns.  The Cookie header is a        *)
(* sequence of atoms taken apart as getCSRFTokenFromRequest does.          *)
(***************************************************************************)
CookieName == "__Host-csrf-token"

MaxBodyBytes == 1048576

MinQueryLength == 3

MinFirstNameLength == 2

\* String.prototype.split(sep) over a sequence of atoms
RECURSIVE SplitOn(_, _, _)
SplitOn(s, sep, cur) ==
    IF s = <<>> THEN <<cur>>
    ELSE IF Head(s) = sep THEN <<cur>> \o SplitOn(Tail(s), sep, <<>>)
    ELSE SplitOn(Tail(s), sep, Append(cur, Head(s)))

\* The reduce over cookieHeader.split(';'): [name, value] = cookie.trim().split('=')
\* and acc[name] = value, later cookies overwriting earlier ones
RECURSIVE ParseCookies(_, _)
ParseCookies(cookies, acc) ==
    IF cookies = <<>> THEN acc
    ELSE LET parts == SplitOn(Trim(Head(cookies)), "=", <<>>)
             name  == parts[1]
             value == IF Len(parts) >= 2 THEN Str(parts[2]) ELSE Null
         IN  ParseCookies(Tail(cookies), Put(acc, name, value))

\* getCSRFTokenFromRequest: the x-csrf-token header if truthy, else the
\* __Host-csrf-token cookie, else null
getCSRFTokenFromRequest(request) ==
    IF Truthy(request.csrfHeader) THEN request.csrfHeader
    ELSE IF Truthy(request.cookie)
    THEN Get(ParseCookies(SplitOn(request.cookie.s, ";", <<>>), <<>>),
             <<CookieName>>, Null)
    ELSE Null

SecurityHeaders ==
    [h \in {"X-Content-Type-Options", "X-Frame-Options", "X-XSS-Protection",
            "Referrer-Policy", "Content-Security-Policy"} |->
        CASE h = "X-Content-Type-Options" -> <<"nosniff">>
          [] h = "X-Frame-Options"         -> <<"DENY">>
          [] h = "X-XSS-Protection"        -> <<"1; mode=block">>
          [] h = "Referrer-Policy"         -> <<"strict-origin-when-cross-origin">>
          [] OTHER                         -> <<"default-src 'self'">>]

\* getSecurityHeaders(), the default headers of a response
getSecurityHeaders == SecurityHeaders

\* f with the entries of g added (object spread, Headers.set)
Merge(f, g) == [k \in DOMAIN f \cup DOMAIN g |-> IF k \in DOMAIN g THEN g[k] ELSE f[k]]

\* The headers of a 429 answer of /api/rsvp
TooManyHeaders(config, result) ==
    Merge(getSecurityHeaders,
          [h \in {"X-RateLimit-Limit", "X-RateLimit-Remaining", "X-RateLimit-Reset",
                  "Retry-After"} |->
              CASE h = "X-RateLimit-Limit"     -> NumToString(config.maxRequests)
                [] h = "X-RateLimit-Remaining" -> <<"0">>
                [] h = "X-RateLimit-Reset"     ->
                       NumToString(CeilDiv(result.resetTime, MsPerSecond))
                [] OTHER                       -> NumToString(result.retryAfter)])

\* The X-RateLimit-* headers of a served answer of /api/rsvp
ServedHeaders(config, result, disabled) ==
    Merge(getSecurityHeaders,
          [h \in {"X-RateLimit-Limit", "X-RateLimit-Remaining", "X-RateLimit-Reset"} |->
              CASE h = "X-RateLimit-Limit"     -> NumToString(config.maxRequests)
                [] h = "X-RateLimit-Remaining" ->
                       NumToString(IF disabled THEN config.maxRequests
                                   ELSE result.remaining)
                [] OTHER                       ->
                       NumToString(IF disabled THEN 0
                                   ELSE CeilDiv(result.resetTime, MsPerSecond))])

Response(status, error, headers) ==
    [status |-> status, error |-> error, headers |-> headers]

\* rateLimitDisabled ? {allowed: true, ...} : checkRateLimit(clientId, config)
Admission(store, clientId, config, t, sweep, disabled) ==
    IF disabled
    THEN [store  |-> store,
          consulted |-> FALSE,
          result |-> [allowed   |-> TRUE,
                      remaining |-> config.maxRequests,
                      resetTime |-> t + config.windowMs]]
    ELSE LET out == CheckOutcome(store, clientId, config, t, sweep)
         IN  [store |-> out.store, consulted |-> TRUE, result |-> out.result]

\* value || null
OrNull(chars) == IF chars = <<>> THEN Null ELSE Str(chars)

Write(op, row) == [op |-> op, row |-> row]

GuestRow(guest) ==
    [name |-> guest.name, status |-> guest.status, dietNotes |-> OrNull(guest.dietNotes)]

\* The statements of the loop over sanitizedData.guests of an existing invite
RECURSIVE UpdateGuestWrites(_, _)
UpdateGuestWrites(guests, existingGuestIds) ==
    IF guests = <<>> THEN <<>>
    ELSE LET guest == Head(guests)
             these ==
                 IF TruthyValue(guest.id)
                 THEN IF guest.id \in existingGuestIds
                      THEN <<Write("UPDATE guests", GuestRow(guest))>>
                      ELSE <<Write("UPDATE guests status", [status |-> guest.status]),
                             Write("INSERT guests", GuestRow(guest))>>
                 ELSE <<Write("INSERT guests", GuestRow(guest))>>
         IN  these \o UpdateGuestWrites(Tail(guests), existingGuestIds)

\* The existing guests the payload did not name are marked NOT_ATTENDING
RECURSIVE MarkMissingWrites(_, _)
MarkMissingWrites(existingIds, processed) ==
    IF existingIds = <<>> THEN <<>>
    ELSE (IF Head(existingIds) \in processed THEN <<>>
          ELSE <<Write("UPDATE guests status", [status |-> <<"NOT_ATTENDING">>])>>)
         \o MarkMissingWrites(Tail(existingIds), processed)

\* The statements that save a validated payload: a new invite with its
\* guests, or the update of the invite the body's inviteCode names
SaveWrites(sanitizedData, existing, existingIds) ==
    IF existing
    THEN LET idSet     == SeqRange(existingIds)
             processed == {sanitizedData.guests[i].id : i \in DOMAIN sanitizedData.guests}
                              \cap idSet
         IN  <<Write("UPDATE invites", [message |-> OrNull(sanitizedData.message)])>>
             \o UpdateGuestWrites(sanitizedData.guests, idSet)
             \o MarkMissingWrites(existingIds, processed)
    ELSE <<Write("INSERT invites", [message |-> OrNull(sanitizedData.message)])>>
         \o [i \in DOMAIN sanitizedData.guests |->
               Write("INSERT guests", GuestRow(sanitizedData.guests[i]))]

\* What the database answers to the reads of a handler: "fails" (the first
\* statement throws), "noInvite" (no invite has the code), "invite" (the
\* invite exists without guests) or "inviteWithGuest" (it has guest g1)
DbAnswers == {"fails", "noInvite", "invite", "inviteWithGuest"}

ExistingGuestIds(answer) ==
    IF answer = "inviteWithGuest" THEN <<Str(<<"g", "1">>)>> ELSE <<>>

\* A component the handler consulted, and whether the request passed it
Step(component, passed) == [component |-> component, passed |-> passed]

Outcome(store, steps, writes, response) ==
    [store |-> store, steps |-> steps, writes |-> writes, response |-> response]

\* The handler let an exception escape (no response of its own)
Thrown == [status |-> 0, error |-> "exception", headers |-> <<>>]

\* typeof body.inviteCode === 'string' ? body.inviteCode.trim() : ''
InviteCodeFromBody(data) ==
    IF data.inviteCode.kind = "str" THEN Trim(data.inviteCode.s) ELSE <<>>

\* The only element of a singleton set
TheOne(S) == CHOOSE x \in S : TRUE

\* POST /api/rsvp from the validation result v on
RsvpPostValidated(request, store, steps, result, disabled, v) ==
    LET config == RATE_LIMIT_CONFIGS.rsvp
        st == Append(steps, Step("validator", v.isValid))
        fail(status, error) ==
            Outcome(store, st, <<>>, Response(status, error, getSecurityHeaders))
        inviteCode == InviteCodeFromBody(request.body.data)
    IN  IF ~v.isValid THEN fail(400, "Validation failed")
        ELSE IF Len(v.sanitizedData.guests) = 0
        THEN fail(400, "At least one guest is required")
        ELSE IF request.db = "fails" THEN fail(500, "An unexpected error occurred")
        ELSE IF inviteCode # <<>> /\ request.db = "noInvite"
        THEN fail(404, "Invalid invite code")
        ELSE Outcome(store, Append(st, Step("write", TRUE)),
                     SaveWrites(v.sanitizedData, inviteCode # <<>>,
                                ExistingGuestIds(request.db)),
                     Response(IF inviteCode # <<>> THEN 200 ELSE 201, "",
                              ServedHeaders(config, result, disabled)))

\* The body of the try block of POST /api/rsvp once the request is admitted
RsvpPostAdmitted(request, store, steps, result, disabled) ==
    LET fail(st, status, error) ==
            Outcome(store, st, <<>>, Response(status, error, getSecurityHeaders))
    IN  IF request.contentLength.kind = "int" /\ request.contentLength.n > MaxBodyBytes
        THEN fail(steps, 413, "Request too large")
        ELSE IF request.body.kind # "json"
        THEN fail(steps, 500, "An unexpected error occurred")
        ELSE IF ~Truthy(getCSRFTokenFromRequest(request))
        THEN fail(Append(steps, Step("csrf", FALSE)), 403, "CSRF token required")
        ELSE TheOne({RsvpPostValidated(request, store, Append(steps, Step("csrf", TRUE)),
                                       result, disabled, v) :
                        v \in {validateRSVPData(request.body.data, "false")}})

\* POST /api/rsvp
RsvpPostOutcome(request, store, t, sweep, e, disabled) ==
    LET config == RATE_LIMIT_CONFIGS.rsvp
        origin == VerifyOriginOutcome(request.origin, request.referer, e)
        adm    == Admission(store, request.clientId, config, t, sweep, disabled)
        steps  == <<Step("origin", TRUE)>>
                  \o (IF adm.consulted
                      THEN <<Step("rateLimiter", adm.result.allowed)>> ELSE <<>>)
    IN  IF origin.kind = "throw"
        THEN Outcome(store, <<Step("origin", FALSE)>>, <<>>, Thrown)
        ELSE IF ~origin.value
        THEN Outcome(store, <<Step("origin", FALSE)>>, <<>>,
                     Response(403, "Invalid request origin", getSecurityHeaders))
        ELSE IF ~adm.result.allowed
        THEN Outcome(adm.store, steps, <<>>,
                     Response(429, "Too many requests",
                              TooManyHeaders(config, adm.result)))
        ELSE RsvpPostAdmitted(request, adm.store, steps, adm.result, disabled)

\* The loop over the submitted names of POST /api/admin/invites: a row per
\* name that is non-empty after trim(); a truthy value that is not a string
\* has no trim() and ends the loop with a TypeError
RECURSIVE AdminGuestWrites(_)
AdminGuestWrites(names) ==
    IF names = <<>> THEN [writes |-> <<>>, threw |-> FALSE]
    ELSE LET name == Head(names)
             rest == AdminGuestWrites(Tail(names))
         IN  IF name.kind = "str"
             THEN [writes |-> (IF Trim(name.s) # <<>>
                               THEN <<Write("INSERT guests", [name |-> Trim(name.s)])>>
                               ELSE <<>>) \o rest.writes,
                   threw  |-> rest.threw]
             ELSE IF TruthyValue(name) THEN [writes |-> <<>>, threw |-> TRUE]
             ELSE rest

\* POST /api/admin/invites
AdminInvitesPostOutcome(request, store, e) ==
    LET origin == VerifyOriginOutcome(request.origin, request.referer, e)
        fail(st, status, error) ==
            Outcome(store, st, <<>>, Response(status, error, getSecurityHeaders))
        names  == IF request.body.kind = "json" /\ request.body.data.guests.kind = "arr"
                  THEN request.body.data.guests.items ELSE <<>>
        rows   == AdminGuestWrites(names)
        passed == <<Step("origin", TRUE), Step("csrf", TRUE)>>
    IN  IF origin.kind = "throw"
        THEN Outcome(store, <<Step("origin", FALSE)>>, <<>>, Thrown)
        ELSE IF ~origin.value THEN fail(<<Step("origin", FALSE)>>, 403, "Invalid origin")
        ELSE IF request.body.kind # "json"
        THEN fail(<<Step("origin", TRUE)>>, 500, "An unexpected error occurred")
        ELSE IF ~Truthy(getCSRFTokenFromRequest(request))
        THEN fail(<<Step("origin", TRUE), Step("csrf", FALSE)>>, 403,
                  "CSRF token missing")
        ELSE IF names = <<>> THEN fail(passed, 400, "Guest list required")
        ELSE IF request.db = "fails"
        THEN fail(passed, 500, "An unexpected error occurred")
        ELSE Outcome(store, Append(passed, Step("write", TRUE)),
                     <<Write("INSERT invites", [message |-> Null])>> \o rows.writes,
                     IF rows.threw
                     THEN Response(500, "An unexpected error occurred", getSecurityHeaders)
                     ELSE Response(201, "", getSecurityHeaders))

\* searchParams.get(name)?.trim()
TrimmedParam(v) == IF v.kind = "str" THEN Str(Trim(v.s)) ELSE Null

\* GET /api/rsvp
RsvpGetOutcome(request, store, t, sweep, disabled) ==
    LET config     == RATE_LIMIT_CONFIGS.rsvpRead
        adm        == Admission(store, request.clientId, config, t, sweep, disabled)
        steps      == IF adm.consulted
                      THEN <<Step("rateLimiter", adm.result.allowed)>> ELSE <<>>
        inviteCode == TrimmedParam(request.inviteCode)
        headers    == ServedHeaders(config, adm.result, disabled)
    IN  IF ~adm.result.allowed
        THEN Outcome(adm.store, steps, <<>>,
                     Response(429, "Too many requests",
                              TooManyHeaders(config, adm.result)))
        ELSE IF request.db = "fails"
        THEN Outcome(adm.store, steps, <<>>,
                     Response(500, "An unexpected error occurred", getSecurityHeaders))
        ELSE IF Truthy(inviteCode) /\ request.db = "noInvite"
        THEN Outcome(adm.store, steps, <<>>, Response(404, "Invite not found", headers))
        ELSE Outcome(adm.store, steps, <<>>, Response(200, "", headers))

\* sanitizedQuery.split(/\s+/)[0]
RECURSIVE FirstWord(_)
FirstWord(s) ==
    IF s = <<>> \/ Head(s) \in WhitespaceChars THEN <<>>
    ELSE <<Head(s)>> \o FirstWord(Tail(s))

\* The names in the guests table, of all invites
GuestNames ==
    <<<<"M", "a", "t", "t", " ", "J", "a", "p">>, <<"M", "i", "a", " ", "L", "i">>>>

\* name ILIKE `${sanitizedQuery}%`, for a query without the wildcards % and _
StartsWith(name, prefix) ==
    /\ Len(prefix) <= Len(name)
    /\ \A i \in DOMAIN prefix : ToLower(name[i]) = ToLower(prefix[i])

\* SELECT ... FROM guests WHERE name ILIKE ${searchPattern}
SearchGuests(sanitizedQuery) ==
    SelectSeq(GuestNames, LAMBDA name : StartsWith(name, sanitizedQuery))

\* inviteCheck.length === 0 does not hold (mutation: the check always finds
\* an invite)
InviteFound_Always(answer) == TRUE

InviteFound(answer) == answer # "noInvite"

\* The JSON answer of the search: {results} or {error}
SearchResponse(status, error, headers, results) ==
    [status |-> status, error |-> error, headers |-> headers, results |-> results]

\* GET /api/guests/search
GuestSearchOutcome(request, store, t, sweep, disabled) ==
    LET config     == RATE_LIMIT_CONFIGS.guestSearch
        adm        == Admission(store, request.clientId, config, t, sweep, disabled)
        steps      == IF adm.consulted
                      THEN <<Step("rateLimiter", adm.result.allowed)>> ELSE <<>>
        query      == IF Truthy(TrimmedParam(request.query))
                      THEN TrimmedParam(request.query).s ELSE <<>>
        inviteCode == TrimmedParam(request.inviteCode)
        sanitizedQuery == sanitizeInput(Str(query))
        checked(found) == Append(steps, Step("inviteCheck", found))
        answer(st, status, error) ==
            Outcome(adm.store, st, <<>>,
                    SearchResponse(status, error, getSecurityHeaders, <<>>))
    IN  IF ~adm.result.allowed
        THEN Outcome(adm.store, steps, <<>>,
                     SearchResponse(429, "Too many search requests",
                                    Merge(getSecurityHeaders,
                                          [h \in {"Retry-After"} |->
                                             NumToString(adm.result.retryAfter)]),
                                    <<>>))
        ELSE IF ~Truthy(inviteCode) THEN answer(steps, 401, "Unauthorized")
        ELSE IF request.db = "fails"
        THEN answer(checked(FALSE), 500, "An unexpected error occurred")
        ELSE IF ~InviteFound(request.db)
        THEN answer(checked(FALSE), 403, "Invalid invite session")
        ELSE IF Len(query) < MinQueryLength THEN answer(checked(TRUE), 200, "")
        ELSE IF \A i \in DOMAIN sanitizedQuery : sanitizedQuery[i] # " "
        THEN answer(checked(TRUE), 200, "")
        ELSE IF Len(FirstWord(sanitizedQuery)) < MinFirstNameLength
        THEN answer(checked(TRUE), 200, "")
        ELSE Outcome(adm.store, Append(checked(TRUE), Step("search", TRUE)), <<>>,
                     SearchResponse(200, "", getSecurityHeaders,
                                    SearchGuests(sanitizedQuery)))

\* A handler runs to completion on one request
Handle(endpoint, request, out) ==
    /\ nCalls' = nCalls + 1
    /\ rateLimitStore' = out.store
    /\ db' = db \o out.writes
    /\ httpLast' = [kind     |-> "request",
                    endpoint |-> endpoint,
                    request  |-> request,
                    steps    |-> out.steps,
                    writes   |-> out.writes,
                    response |-> out.response]
    /\ UNCHANGED <<now, rlConfig, lastCall, callLog, advVars, csrfVars, originVars,
                   valVars, rateLimitDisabled, inflight, tables>>

rsvpPost(request, sweep) ==
    /\ nCalls < MaxRequests
    /\ \E out \in {RsvpPostOutcome(request, rateLimitStore, now, sweep, env,
                                rateLimitDisabled)} :
        Handle("POST /api/rsvp", request, out)

rsvpGet(request, sweep) ==
    /\ nCalls < MaxRequests
    /\ \E out \in {RsvpGetOutcome(request, rateLimitStore, now, sweep,
                               rateLimitDisabled)} :
        Handle("GET /api/rsvp", request, out)

guestSearchGet(request, sweep) ==
    /\ nCalls < MaxRequests
    /\ \E out \in {GuestSearchOutcome(request, rateLimitStore, now, sweep,
                                   rateLimitDisabled)} :
        Handle("GET /api/guests/search", request, out)

adminInvitesPost(request) ==
    /\ nCalls < MaxRequests
    /\ \E out \in {AdminInvitesPostOutcome(request, rateLimitStore, env)} :
        Handle("POST /api/admin/invites", request, out)

(***************************************************************************)
(* Specification HandlerSpec: a process started with one of the            *)
(* environments below serves requests.  The store starts empty or as a     *)
(* client leaves it after using all but one request of each window at      *)
(* time 0, so that a second request of a run is denied.                    *)
(***************************************************************************)
HttpClient == <<"c">>

\* The store after n checkRateLimit calls of the client at time 0
StoreAfterCalls(config, n) ==
    [k \in {RateKey(HttpClient, config)} |->
        [count |-> n, resetTime |-> config.windowMs]]

WarmStore ==
    Merge(Merge(StoreAfterCalls(RATE_LIMIT_CONFIGS.rsvp,
                                RATE_LIMIT_CONFIGS.rsvp.maxRequests - 1),
                StoreAfterCalls(RATE_LIMIT_CONFIGS.rsvpRead,
                                RATE_LIMIT_CONFIGS.rsvpRead.maxRequests - 1)),
          StoreAfterCalls(RATE_LIMIT_CONFIGS.guestSearch,
                          RATE_LIMIT_CONFIGS.guestSearch.maxRequests - 1))

HttpEnvs ==
    {[NODE_ENV |-> Str(<<"production">>), ALLOWED_ORIGINS |-> Str(<<"https://a.example">>)],
     [NODE_ENV |-> Str(<<"development">>), ALLOWED_ORIGINS |-> Null]}

HttpInit ==
    /\ now = 0
    /\ nCalls = 0
    /\ rateLimitStore \in {<<>>, WarmStore}
    /\ lastCall = None
    /\ callLog = <<>>
    /\ advStore = <<>>
    /\ advAdmitted = <<>>
    /\ advLast = None
    /\ tokens = <<>>
    /\ issued = {}
    /\ nextSweepAt = SweepIntervalMs
    /\ csrfLast = None
    /\ originLast = None
    /\ sanLast = None
    /\ valLast = None
    /\ db = <<>>
    /\ httpLast = None
    /\ inflight = <<>>
    /\ tables = [invites |-> <<>>, guests |-> <<>>]
    /\ sanText = <<>>
    /\ valInput = None
    /\ rlConfig = None
    /\ advConfig = None
    /\ rateLimitDisabled \in BOOLEAN
    /\ env \in HttpEnvs

\* Origin and Referer headers of a request
OriginEvidence ==
    {[origin |-> Str(<<"https://a.example">>), referer |-> Null],
     [origin |-> Str(<<"https://evil.example">>), referer |-> Null],
     [origin |-> Null, referer |-> Str(<<"/rsvp">>)]}

\* x-csrf-token and Cookie headers of a request
TokenEvidence ==
    {[csrfHeader |-> Str(<<"t", "1">>), cookie |-> Null],
     [csrfHeader |-> Null, cookie |-> Str(<<CookieName, "=", "t", "1">>)],
     [csrfHeader |-> Null,
      cookie |-> Str(<<"theme", "=", "d", ";", " ", CookieName, "=">>)],
     [csrfHeader |-> Null, cookie |-> Null]}

Num(n) == [kind |-> "int", n |-> n]

RsvpBody(name, attending, additionalGuests, inviteCode) ==
    [kind |-> "json",
     data |-> [id |-> Null, name |-> name, attending |-> attending,
               dietaryNotes |-> Null, message |-> Null,
               additionalGuests |-> additionalGuests, inviteCode |-> inviteCode]]

InviteCodes == {Null, Str(<<"I", "1">>)}

PlusOne == Arr(<<Obj(Str(<<"g", "1">>), Str(<<"B", "o">>), Null)>>)

RsvpBodies ==
    {[kind |-> "invalid"],
     RsvpBody(Str(<<"A", "l">>), Str(<<"ATTENDING">>), PlusOne, Null),
     RsvpBody(Str(<<"A", "l">>), Str(<<"ATTENDING">>), PlusOne, Str(<<"I", "1">>)),
     RsvpBody(Str(<<"A", "l">>), Str(<<"MAYBE">>), Null, Null),
     RsvpBody(Str(<<"A", "1">>), Str(<<"ATTENDING">>), Null, Null)}

\* Every combination of origin, token, body and database answer, and one
\* request that announces a body above the size limit
RsvpPostRequests ==
    {[clientId |-> HttpClient, origin |-> o.origin, referer |-> o.referer,
      csrfHeader |-> t.csrfHeader, cookie |-> t.cookie, contentLength |-> Null,
      body |-> b, db |-> d] :
        o \in OriginEvidence, t \in TokenEvidence, b \in RsvpBodies,
        d \in {"fails", "noInvite", "inviteWithGuest"}}
    \cup {[clientId |-> HttpClient, origin |-> Str(<<"https://a.example">>),
           referer |-> Null, csrfHeader |-> Str(<<"t", "1">>), cookie |-> Null,
           contentLength |-> Num(MaxBodyBytes + 1),
           body |-> RsvpBody(Str(<<"A", "l">>), Str(<<"ATTENDING">>), PlusOne, Null),
           db |-> "invite"]}

AdminBodies ==
    {[kind |-> "invalid"]}
    \cup {[kind |-> "json", data |-> [guests |-> g]] :
            g \in {Null, Arr(<<Str(<<"A", "l">>), Str(<<" ">>)>>),
                   Arr(<<Str(<<"A", "l">>), Other>>)}}

AdminPostRequests ==
    {[origin |-> o.origin, referer |-> o.referer,
      csrfHeader |-> t.csrfHeader, cookie |-> t.cookie, body |-> b, db |-> d] :
        o \in OriginEvidence, t \in TokenEvidence, b \in AdminBodies,
        d \in {"fails", "invite"}}

RsvpGetRequests ==
    {[clientId |-> HttpClient, inviteCode |-> c, db |-> d] :
        c \in InviteCodes, d \in {"fails", "noInvite", "invite"}}

Queries ==
    {Null, Str(<<"M", "a">>), Str(<<"M", "a", "t">>),
     Str(<<"M", "a", "t", "t", " ", "J">>), Str(<<"m", "i", "a", " ">>),
     Str(<<"m", "i", "a", " ", "l">>), Str(<<"<", " ", "M", "a">>)}

GuestSearchRequests ==
    {[clientId |-> HttpClient, inviteCode |-> c, query |-> q, db |-> d] :
        c \in InviteCodes, q \in Queries, d \in {"fails", "noInvite", "invite"}}

HttpRsvpPost == \E r \in RsvpPostRequests, sweep \in BOOLEAN : rsvpPost(r, sweep)

HttpRsvpGet == \E r \in RsvpGetRequests, sweep \in BOOLEAN : rsvpGet(r, sweep)

HttpGuestSearch ==
    \E r \in GuestSearchRequests, sweep \in BOOLEAN : guestSearchGet(r, sweep)

HttpAdminPost == \E r \in AdminPostRequests : adminInvitesPost(r)

HttpNext == HttpRsvpPost \/ HttpRsvpGet \/ HttpGuestSearch \/ HttpAdminPost

HandlerSpec == HttpInit /\ [][HttpNext]_vars

(***************************************************************************)
(* Properties of the route handlers, over the record httpLast that the     *)
(* last handled request left.                                              *)
(***************************************************************************)
Handled(endpoint) == httpLast.kind = "request" /\ httpLast.endpoint = endpoint

\* The place of a component among the steps of the last request, 0 if the
\* handler did not consult it
StepOf(component) ==
    LET at == {i \in DOMAIN httpLast.steps : httpLast.steps[i].component = component}
    IN  IF at = {} THEN 0 ELSE CHOOSE i \in at : TRUE

Consulted(component) == StepOf(component) # 0

Passed(component) ==
    Consulted(component) /\ httpLast.steps[StepOf(component)].passed

Components == [i \in DOMAIN httpLast.steps |-> httpLast.steps[i].component]

IsPrefix(a, b) == Len(a) <= Len(b) /\ a = SubSeq(b, 1, Len(a))

Wrote == httpLast.writes # <<>>

\* C11: in POST /api/rsvp the rate limiter is consulted first, the origin
\* and CSRF-token checks run only for a request the rate limiter admitted,
\* the validator runs only after those checks passed, and nothing is written
\* unless the validator returned isValid = true.
C11_AdmissionOrder ==
    (Handled("POST /api/rsvp") /\ ~rateLimitDisabled) =>
        /\ httpLast.steps # <<>> => httpLast.steps[1].component = "rateLimiter"
        /\ \A c \in {"origin", "csrf"} :
              Consulted(c) =>
                Passed("rateLimiter") /\ StepOf("rateLimiter") < StepOf(c)
        /\ Consulted("validator") =>
              /\ Passed("origin") /\ StepOf("origin") < StepOf("validator")
              /\ Passed("csrf") /\ StepOf("csrf") < StepOf("validator")
        /\ Wrote => Passed("validator")

\* What POST /api/rsvp does instead: origin check, rate limiter, CSRF token,
\* validator, write, each reached only when the one before it passed
C11_OrderAsCoded ==
    Handled("POST /api/rsvp") =>
        /\ IsPrefix(Components,
                    IF rateLimitDisabled
                    THEN <<"origin", "csrf", "validator", "write">>
                    ELSE <<"origin", "rateLimiter", "csrf", "validator", "write">>)
        /\ \A i \in DOMAIN httpLast.steps :
              i < Len(httpLast.steps) => httpLast.steps[i].passed
        /\ Wrote => Passed("validator")

\* A request with a foreign origin is refused before the rate limiter sees it
C11_RefusedBeforeRateLimiter ==
    /\ Handled("POST /api/rsvp")
    /\ ~rateLimitDisabled
    /\ httpLast.response.status = 403
    /\ Components = <<"origin">>

\* C12: POST /api/rsvp and POST /api/admin/invites write to the database
\* only for a request that the rate limiter admitted, that passed the origin
\* check and that carried a CSRF token.
C12_WritesGuarded ==
    ((Handled("POST /api/rsvp") \/ Handled("POST /api/admin/invites"))
       /\ ~rateLimitDisabled /\ Wrote) =>
        Passed("rateLimiter") /\ Passed("origin") /\ Passed("csrf")

\* What holds of both endpoints: a write needs the origin check and a token
C12_OriginAndTokenGuard ==
    ((Handled("POST /api/rsvp") \/ Handled("POST /api/admin/invites")) /\ Wrote) =>
        /\ Passed("origin") /\ Passed("csrf")
        /\ Truthy(getCSRFTokenFromRequest(httpLast.request))
        /\ (Handled("POST /api/rsvp") /\ ~rateLimitDisabled) => Passed("rateLimiter")

RateLimitHeaders == {"X-RateLimit-Limit", "X-RateLimit-Remaining", "X-RateLimit-Reset"}

Carries(names) == names \subseteq DOMAIN httpLast.response.headers

Denied == Consulted("rateLimiter") /\ ~Passed("rateLimiter")

\* C13: on GET /api/rsvp, POST /api/rsvp and GET /api/guests/search a
\* request the rate limiter denied is answered 429 with Retry-After and the
\* three X-RateLimit headers, and a request admitted and served successfully
\* carries the three X-RateLimit headers.
C13_RateLimitHeaders ==
    (\E e \in {"GET /api/rsvp", "POST /api/rsvp", "GET /api/guests/search"} :
        Handled(e)) =>
        /\ Denied => /\ httpLast.response.status = 429
                     /\ Carries(RateLimitHeaders \cup {"Retry-After"})
        /\ (Passed("rateLimiter") /\ httpLast.response.status \in {200, 201}) =>
              Carries(RateLimitHeaders)

\* What holds: the two /api/rsvp handlers send the headers, and every denied
\* request of the three endpoints gets 429 with Retry-After
C13_RsvpHeaders ==
    /\ (Handled("GET /api/rsvp") \/ Handled("POST /api/rsvp")) =>
          /\ Denied => Carries(RateLimitHeaders \cup {"Retry-After"})
          /\ httpLast.response.status \in {200, 201} => Carries(RateLimitHeaders)
    /\ (httpLast.kind = "request" /\ Denied) =>
          httpLast.response.status = 429 /\ Carries({"Retry-After"})

\* C14: a POST /api/rsvp request that passed the origin and rate-limit
\* checks and has no x-csrf-token header, also one with the token in the
\* __Host-csrf-token cookie, is answered 403 and writes nothing.
C14_HeaderTokenRequired ==
    (/\ Handled("POST /api/rsvp")
     /\ Passed("origin")
     /\ ~Denied
     /\ httpLast.request.contentLength = Null
     /\ httpLast.request.body.kind = "json"
     /\ ~Truthy(httpLast.request.csrfHeader)) =>
        httpLast.response.status = 403 /\ ~Wrote

\* What holds: a request with a token neither in the header nor in the
\* cookie is answered 403 and writes nothing
C14_NoTokenRefused ==
    (/\ Handled("POST /api/rsvp")
     /\ Passed("origin")
     /\ ~Denied
     /\ httpLast.request.contentLength = Null
     /\ httpLast.request.body.kind = "json"
     /\ ~Truthy(getCSRFTokenFromRequest(httpLast.request))) =>
        httpLast.response.status = 403 /\ ~Wrote

\* A submitted field that the validator's rules do not allow
InvalidName(data) ==
    data.name.kind = "str" /\ ~validateName(sanitizeInput(data.name)).isValid

InvalidAttending(data) ==
    data.attending.kind = "str" /\ data.attending.s \notin Statuses

\* C19: when a submitted field of a POST /api/rsvp body is invalid (a name
\* with disallowed characters, an attending value outside ATTENDING,
\* NOT_ATTENDING, UNSELECTED) the answer is a validation error and nothing is
\* written; no substitute value is stored.
C19_InvalidBlocks ==
    (/\ Handled("POST /api/rsvp")
     /\ Consulted("validator")
     /\ InvalidName(httpLast.request.body.data)
          \/ InvalidAttending(httpLast.request.body.data)) =>
        httpLast.response.status = 400 /\ ~Wrote

\* What holds: a name with disallowed characters blocks the submission
C19_InvalidNameBlocks ==
    (/\ Handled("POST /api/rsvp")
     /\ Consulted("validator")
     /\ InvalidName(httpLast.request.body.data)) =>
        httpLast.response.status = 400 /\ ~Wrote

(***************************************************************************)
(* Exceptions.  Of the functions of the core only verifyRequestOrigin has  *)
(* a statement that can throw on its inputs: new URL(referer).             *)
(***************************************************************************)
\* C22: the core returns a result value and never throws; in particular
\* verifyRequestOrigin returns for a production request whose only origin
\* evidence is a malformed Referer header.
C22_NeverThrows ==
    originLast.kind = "verifyRequestOrigin" => originLast.outcome.kind = "return"

\* What holds: verifyRequestOrigin throws only in production, for a request
\* without Origin whose Referer is not an absolute URL
C22_ThrowsOnlyOnMalformedReferer ==
    (originLast.kind = "verifyRequestOrigin" /\ originLast.outcome.kind = "throw") =>
        /\ IsProduction(env)
        /\ ~Truthy(originLast.origin)
        /\ Truthy(originLast.referer)
        /\ URLOrigin(originLast.referer.s).kind = "throw"

\* The statements a handler sent to the database to read
DbReads == {"inviteCheck", "search"}

SearchResults == httpLast.response.results

C23_DeniedWitness ==
    /\ Handled("GET /api/guests/search")
    /\ Denied
    /\ httpLast.response.status = 429

\* The record of the rsvp bucket that checkRateLimit keeps for a client
RsvpRecord(store, clientId) ==
    Get(store, RateKey(clientId, RATE_LIMIT_CONFIGS.rsvp), None)

\* The last step handled a POST /api/rsvp that did not end in 200 or 201
FailedRsvpPost ==
    /\ httpLast'.kind = "request"
    /\ httpLast'.endpoint = "POST /api/rsvp"
    /\ httpLast'.response.status \notin {200, 201}

\* C26: skipFailedRequests is true for the rsvp bucket.  A POST /api/rsvp
\* that ends in failure leaves the client's record of the bucket as it was,
\* so that only successful submissions use up the quota.
C26_FailuresNotCounted ==
    [][FailedRsvpPost =>
         RsvpRecord(rateLimitStore', httpLast'.request.clientId)
           = RsvpRecord(rateLimitStore, httpLast'.request.clientId)]_vars

\* What holds: every POST /api/rsvp that reaches the rate limiter and is
\* admitted is counted, whatever the answer turns out to be
C26_EveryAdmittedCounted ==
    [][(httpLast'.kind = "request" /\ httpLast'.endpoint = "POST /api/rsvp"
          /\ \E i \in DOMAIN httpLast'.steps :
                httpLast'.steps[i] = Step("rateLimiter", TRUE)) =>
         /\ RsvpRecord(rateLimitStore', httpLast'.request.clientId) # None
         /\ RsvpRecord(rateLimitStore', httpLast'.request.clientId).count
              = (IF RsvpRecord(rateLimitStore, httpLast'.request.clientId) = None
                 THEN 0
                 ELSE RsvpRecord(rateLimitStore, httpLast'.request.clientId).count) + 1]_vars

(***************************************************************************)
(* The sweep of the fixed-window store                                     *)
(***************************************************************************)
\* The results of checkRateLimit calls of one client and config at `times`,
\* from `store` on, when no call sweeps
RECURSIVE NoSweepResults(_, _, _, _)
NoSweepResults(times, clientId, config, store) ==
    IF times = <<>> THEN <<>>
    ELSE TheOne({<<out.result>>
                   \o NoSweepResults(Tail(times), clientId, config, out.store) :
                 out \in {CheckOutcome(store, clientId, config, Head(times), FALSE)}})

\* C27: the sweep is transparent.  Whatever calls swept, every client's
\* results (allowed, remaining, resetTime, retryAfter) are those of the same
\* calls without any sweep, and a sweep at the current time would delete
\* only records whose window has expired.
C27_SweepTransparent ==
    /\ \A triple \in DOMAIN callLog :
          [i \in DOMAIN callLog[triple] |-> callLog[triple][i].result]
            = NoSweepResults([i \in DOMAIN callLog[triple] |-> callLog[triple][i].time],
                             triple[1], triple[2], <<>>)
    /\ \A k \in DOMAIN rateLimitStore :
          k \notin DOMAIN cleanupExpiredEntries(rateLimitStore, now)
            => WindowExpired(rateLimitStore[k], now)

\* A call whose sweep deleted the caller's expired record, after an earlier
\* call of the same client
C27_Witness ==
    /\ lastCall.kind = "call"
    /\ lastCall.key \in lastCall.swept
    /\ lastCall.result.allowed
    /\ Len(callLog[<<lastCall.clientId, lastCall.config>>]) >= 2

(***************************************************************************)
(* Specification LimiterSpec: the two limiters of rateLimiter.ts in one    *)
(* process, one fixed-window client and the sliding-window clients calling *)
(* in any order while time passes.                                         *)
(***************************************************************************)
LimiterConfigs == {Config(MsPerSecond, 1), Config(MsPerSecond, 2)}

LimiterAdvConfigs ==
    {[windowSize |-> w, maxRequests |-> 1] : w \in {MsPerSecond, 2 * MsPerSecond}}

LimiterInit ==
    /\ InitBase
    /\ NoPayload
    /\ rlConfig \in LimiterConfigs
    /\ advConfig \in LimiterAdvConfigs
    /\ env = [NODE_ENV |-> Str(<<"production">>), ALLOWED_ORIGINS |-> Null]

LimiterNext == RLCall \/ AdvCall \/ AdvTick

LimiterSpec == LimiterInit /\ [][LimiterNext]_vars

\* The store after those calls of a log that were allowed, none sweeping
RECURSIVE StoreOfAllowed(_, _, _, _)
StoreOfAllowed(log, clientId, config, store) ==
    IF log = <<>> THEN store
    ELSE IF ~Head(log).result.allowed
    THEN StoreOfAllowed(Tail(log), clientId, config, store)
    ELSE TheOne({StoreOfAllowed(Tail(log), clientId, config, out.store) :
                 out \in {CheckOutcome(store, clientId, config, Head(log).time, FALSE)}})

IsFixedWindowStep == callLog' # callLog

IsSlidingWindowStep == nCalls' = nCalls + 1 /\ callLog' = callLog

\* A denied checkRateLimit call leaves the caller's record as it was and
\* reports the record's resetTime
FixedWindowDenialFrame ==
    (IsFixedWindowStep /\ ~lastCall'.result.allowed) =>
        /\ lastCall'.key \in DOMAIN rateLimitStore
        /\ rateLimitStore'[lastCall'.key] = rateLimitStore[lastCall'.key]
        /\ lastCall'.result.resetTime = rateLimitStore[lastCall'.key].resetTime

\* Every checkRateLimit result is the one a client gets that made only the
\* allowed calls before
FixedWindowSilentClient ==
    IsFixedWindowStep =>
        LET triple == <<lastCall'.clientId, lastCall'.config>>
            before == Get(callLog, triple, <<>>)
        IN  lastCall'.result
              = CheckOutcome(StoreOfAllowed(before, triple[1], triple[2], <<>>),
                             triple[1], triple[2], now, FALSE).result

\* A denied isAllowed call leaves the store as it was, and every isAllowed
\* result is the one the admitted calls alone determine
SlidingWindowDenialFrame ==
    IsSlidingWindowStep =>
        /\ ~advLast'.result => advStore' = advStore
        /\ advLast'.result
             = ~AdvLimitReached(ValidRequests(Get(advAdmitted, advLast'.clientId, <<>>),
                                              now, advConfig.windowSize),
                                advConfig.maxRequests)

\* C28: a denied request changes no limiter state and cannot postpone
\* readmission.  A denied checkRateLimit call leaves the record's count and
\* resetTime unchanged, a denied isAllowed call leaves the stored timestamps
\* unchanged, and a client that retries while denied gets the results of one
\* that stayed silent.
C28_DenialFrame ==
    [][FixedWindowDenialFrame /\ FixedWindowSilentClient /\ SlidingWindowDenialFrame]_vars

\* A sliding-window client was denied after an admitted call, and the
\* fixed-window client was denied and, in a later window, admitted again
C28_Witness ==
    /\ advLast.kind = "isAllowed"
    /\ ~advLast.result
    /\ Len(Get(advAdmitted, advLast.clientId, <<>>)) >= 1
    /\ lastCall.kind = "call"
    /\ lastCall.result.allowed
    /\ \E i \in DOMAIN callLog[<<lastCall.clientId, lastCall.config>>] :
          ~callLog[<<lastCall.clientId, lastCall.config>>][i].result.allowed

(***************************************************************************)
(* Handlers in flight.  A route handler is an async function: it runs      *)
(* without interruption from its invocation to its first await and from    *)
(* one await to the next, and other handlers run while it awaits.  The     *)
(* handlers of the rate-limited routes call checkRateLimit before their    *)
(* first await (request.json() or the first SQL statement) and keep the    *)
(* result in the local rateLimitResult.                                    *)
(***************************************************************************)
\* Mutant: after its await a handler writes the record back that its
\* rateLimitResult describes.
StoreAfterAwait_WritesBack(h) ==
    Put(rateLimitStore, RateKey(inflight[h].clientId, rlConfig),
        [count     |-> rlConfig.maxRequests - inflight[h].rateLimitResult.remaining,
         resetTime |-> inflight[h].rateLimitResult.resetTime])

\* The store when handler h has resumed from its await: no statement after
\* the checkRateLimit call touches it
StoreAfterAwait(h) == rateLimitStore

\* Handler h is invoked for a request of clientId and runs to its first await
handlerStart(h, clientId, sweep) ==
    /\ h \notin DOMAIN inflight
    /\ \E out \in {CheckOutcome(rateLimitStore, clientId, rlConfig, now, sweep)} :
          /\ rateLimitStore' = out.store
          /\ inflight' = Put(inflight, h,
                             [pc              |-> IF out.result.allowed
                                                  THEN "await" ELSE "done",
                              clientId        |-> clientId,
                              rateLimitResult |-> out.result])
          /\ callLog' = Put(callLog, <<clientId, rlConfig>>,
                            Append(Get(callLog, <<clientId, rlConfig>>, <<>>),
                                   [time   |-> now,
                                    result |-> out.result,
                                    record |-> out.store[RateKey(clientId, rlConfig)]]))
    /\ UNCHANGED <<now, nCalls, rlConfig, lastCall, advVars, csrfVars, originVars,
                   valVars, rateLimitDisabled, db, httpLast, tables>>

\* The promise handler h awaits is settled and the handler runs to its end
handlerResume(h) ==
    /\ h \in DOMAIN inflight
    /\ inflight[h].pc = "await"
    /\ rateLimitStore' = StoreAfterAwait(h)
    /\ inflight' = [inflight EXCEPT ![h].pc = "done"]
    /\ UNCHANGED <<now, nCalls, rlConfig, lastCall, callLog, advVars, csrfVars,
                   originVars, valVars, rateLimitDisabled, db, httpLast, tables>>

(***************************************************************************)
(* Specification ConcurrentSpec: up to MaxInFlight requests of two clients *)
(* are handled, in flight together in every possible way, while time       *)
(* passes.                                                                 *)
(***************************************************************************)
ConcurrentClients == {<<"c">>, <<"d">>}

ConcurrentTimes == {0, MsPerSecond, MsPerSecond + 1}

ConcurrentInit ==
    /\ InitBase
    /\ NoPayload
    /\ rlConfig \in LimiterConfigs
    /\ advConfig = None
    /\ env = [NODE_ENV |-> Str(<<"production">>), ALLOWED_ORIGINS |-> Null]

ConcurrentStart ==
    \E h \in 1..MaxInFlight, c \in ConcurrentClients, sweep \in BOOLEAN :
        handlerStart(h, c, sweep)

ConcurrentResume == \E h \in 1..MaxInFlight : handlerResume(h)

ConcurrentTick == Tick(ConcurrentTimes)

ConcurrentNext == ConcurrentStart \/ ConcurrentResume \/ ConcurrentTick

ConcurrentSpec == ConcurrentInit /\ [][ConcurrentNext]_vars

\* The calls of a log that were allowed in the window that ends at resetTime
AllowedInWindow(log, resetTime) ==
    {i \in DOMAIN log : log[i].result.allowed /\ log[i].result.resetTime = resetTime}

\* C25: however the handlers in flight interleave, each checkRateLimit call
\* reads, checks and increments in one piece: for every key at most
\* maxRequests calls are allowed within one window, and the record counts
\* every allowed call of its window.
C25_AtomicAdmission ==
    \A triple \in DOMAIN callLog :
        LET log == callLog[triple]
            key == RateKey(triple[1], triple[2])
        IN  /\ \A i \in DOMAIN log :
                  Cardinality(AllowedInWindow(log, log[i].result.resetTime))
                    <= triple[2].maxRequests
            /\ key \in DOMAIN rateLimitStore =>
                  rateLimitStore[key].count
                    = Cardinality(AllowedInWindow(log, rateLimitStore[key].resetTime))

\* Two handlers of one client await at the same time, both admitted in the
\* window in which a third request of the client was denied
C25_Witness ==
    \E h1, h2, h3 \in DOMAIN inflight :
        /\ h1 # h2
        /\ inflight[h1].pc = "await" /\ inflight[h2].pc = "await"
        /\ inflight[h1].clientId = inflight[h2].clientId
        /\ inflight[h3].clientId = inflight[h1].clientId
        /\ ~inflight[h3].rateLimitResult.allowed
        /\ inflight[h3].rateLimitResult.resetTime = inflight[h1].rateLimitResult.resetTime
        /\ inflight[h2].rateLimitResult.resetTime = inflight[h1].rateLimitResult.resetTime

(***************************************************************************)
(* The save path of POST /api/rsvp, statement by statement.  Every sql`…`  *)
(* is awaited and runs in its own implicit transaction, so that a handler  *)
(* in flight stands before one statement, named by pc:                     *)
(*   selectInvite, selectGuests, updateInvite, guest (the statement of the *)
(*   loop over sanitizedData.guests for guest i), insertGuest (the INSERT  *)
(*   that follows the UPDATE … RETURNING), mark (the UPDATE of the loop    *)
(*   over existingGuestIds for entry j), insertInvite, newGuest, fetch.    *)
(* A row of invites is [id, inviteCode, message], a row of guests          *)
(* [id, inviteId, name, status, dietNotes]; the timestamps are left out.   *)
(***************************************************************************)
\* randomUUID(): an id no row has
randomUUID(t) == Str(<<"u">> \o NumToString(Len(t.invites) + Len(t.guests) + 1))

\* UPDATE rows SET … WHERE …
UpdateWhere(rows, Where(_), Set(_)) ==
    [k \in DOMAIN rows |-> IF Where(rows[k]) THEN Set(rows[k]) ELSE rows[k]]

NewGuestRow(t, inviteId, guest) ==
    [id        |-> randomUUID(t),
     inviteId  |-> inviteId,
     name      |-> guest.name,
     status    |-> guest.status,
     dietNotes |-> OrNull(guest.dietNotes)]

InsertGuest(t, inviteId, guest) ==
    [t EXCEPT !.guests = Append(@, NewGuestRow(t, inviteId, guest))]

\* The rows of fetchInviteWithGuests(inviteId), null without the invite
fetchInviteWithGuests(t, inviteId) ==
    LET found == SelectSeq(t.invites, LAMBDA r : r.id = inviteId)
    IN  IF found = <<>> THEN Null
        ELSE [kind    |-> "invite",
              message |-> found[1].message,
              guests  |-> SelectSeq(t.guests, LAMBDA g : g.inviteId = inviteId)]

\* The local variables of the handler once the body is validated
SaveLocalValidated(body, v, code) ==
    LET refused == ~v.isValid \/ Len(v.sanitizedData.guests) = 0
    IN  [pc                |-> IF refused THEN "done"
                               ELSE IF code # <<>> THEN "selectInvite"
                               ELSE "insertInvite",
         body              |-> body,
         inviteCode        |-> code,
         message           |-> OrNull(v.sanitizedData.message),
         guests            |-> v.sanitizedData.guests,
         inviteId          |-> Null,
         existingGuestIds  |-> <<>>,
         processedGuestIds |-> {},
         i                 |-> 1,
         j                 |-> 0,
         status            |-> IF refused THEN 400 ELSE 0,
         invite            |-> Null]

SaveLocal(body) ==
    TheOne({SaveLocalValidated(body, v, code) :
               v \in {validateRSVPData(body.data, "false")},
               code \in {InviteCodeFromBody(body.data)}})

\* for (const existingId of existingGuestIds) if (!processedGuestIds.has(…)):
\* the next entry after j that has a statement, else the fetch
NextMark(l) ==
    LET rest == {k \in DOMAIN l.existingGuestIds :
                    k > l.j /\ l.existingGuestIds[k] \notin l.processedGuestIds}
    IN  IF rest = {} THEN [l EXCEPT !.pc = "fetch"]
        ELSE [l EXCEPT !.pc = "mark", !.j = CHOOSE k \in rest : \A m \in rest : k <= m]

\* for (const guest of sanitizedData.guests): the next guest, else the loop
\* over existingGuestIds
NextGuest(l) ==
    IF l.i < Len(l.guests) THEN [l EXCEPT !.pc = "guest", !.i = l.i + 1]
    ELSE NextMark(l)

\* UPDATE guests SET status … WHERE id = ${guest.id} RETURNING id: the
\* statement names no invite
UpdateStatusById(rows, guest, inviteId) ==
    UpdateWhere(rows, LAMBDA r : r.id = guest.id,
                LAMBDA r : [r EXCEPT !.status = guest.status])

\* The statement at l.pc runs on the tables t, and the handler runs on to
\* its next await
SaveStep(t, l) ==
    LET guest == l.guests[l.i]
        on(tt, ll) == [tables |-> tt, local |-> ll]
    IN  CASE l.pc = "selectInvite" ->
               LET found == SelectSeq(t.invites, LAMBDA r : r.inviteCode = l.inviteCode)
               IN  IF found = <<>>
                   THEN on(t, [l EXCEPT !.pc = "done", !.status = 404])
                   ELSE on(t, [l EXCEPT !.pc = "selectGuests", !.inviteId = found[1].id])
          [] l.pc = "selectGuests" ->
               LET rows == SelectSeq(t.guests, LAMBDA g : g.inviteId = l.inviteId)
               IN  on(t, [l EXCEPT !.pc = "updateInvite",
                                   !.existingGuestIds = [k \in DOMAIN rows |-> rows[k].id]])
          [] l.pc = "updateInvite" ->
               on([t EXCEPT !.invites =
                      UpdateWhere(@, LAMBDA r : r.id = l.inviteId,
                                  LAMBDA r : [r EXCEPT !.message = l.message])],
                  [l EXCEPT !.pc = "guest", !.i = 1])
          [] l.pc = "guest" ->
               IF TruthyValue(guest.id)
               THEN IF guest.id \in SeqRange(l.existingGuestIds)
                    THEN on([t EXCEPT !.guests =
                                UpdateWhere(@, LAMBDA r : r.id = guest.id
                                                           /\ r.inviteId = l.inviteId,
                                            LAMBDA r : [r EXCEPT
                                                          !.name = guest.name,
                                                          !.status = guest.status,
                                                          !.dietNotes = OrNull(guest.dietNotes)])],
                            NextGuest([l EXCEPT !.processedGuestIds = @ \cup {guest.id}]))
                    ELSE on([t EXCEPT !.guests = UpdateStatusById(@, guest, l.inviteId)],
                            [l EXCEPT !.pc = "insertGuest"])
               ELSE on(InsertGuest(t, l.inviteId, guest), NextGuest(l))
          [] l.pc = "insertGuest" ->
               on(InsertGuest(t, l.inviteId, guest), NextGuest(l))
          [] l.pc = "mark" ->
               on([t EXCEPT !.guests =
                      UpdateWhere(@, LAMBDA r : r.id = l.existingGuestIds[l.j]
                                                 /\ r.inviteId = l.inviteId,
                                  LAMBDA r : [r EXCEPT !.status = <<"NOT_ATTENDING">>])],
                  NextMark(l))
          [] l.pc = "insertInvite" ->
               LET inviteId == randomUUID(t)
               IN  on([t EXCEPT !.invites =
                          Append(@, [id         |-> inviteId,
                                     inviteCode |-> randomUUID(t).s,
                                     message    |-> l.message])],
                      [l EXCEPT !.pc = "newGuest", !.inviteId = inviteId, !.i = 1])
          [] l.pc = "newGuest" ->
               on(InsertGuest(t, l.inviteId, guest),
                  IF l.i < Len(l.guests) THEN [l EXCEPT !.i = l.i + 1]
                  ELSE [l EXCEPT !.pc = "fetch"])
          [] l.pc = "fetch" ->
               on(t, [l EXCEPT !.pc = "done",
                               !.status = IF l.inviteCode # <<>> THEN 200 ELSE 201,
                               !.invite = fetchInviteWithGuests(t, l.inviteId)])

\* A POST /api/rsvp arrives: handler h validates the body and stands before
\* its first statement
postBegin(h, body) ==
    /\ nCalls < MaxSaves
    /\ h = nCalls + 1
    /\ nCalls' = nCalls + 1
    /\ \E l \in {SaveLocal(body)} :
          inflight' = Put(inflight, h,
                          [local |-> l,
                           after |-> {k \in DOMAIN inflight : inflight[k].local.pc = "done"}])
    /\ UNCHANGED <<now, rlConfig, rlVars, advVars, csrfVars, originVars, valVars,
                   rateLimitDisabled, db, httpLast, tables>>

\* The statement handler h awaits runs
postStep(h) ==
    /\ h \in DOMAIN inflight
    /\ inflight[h].local.pc # "done"
    /\ \E out \in {SaveStep(tables, inflight[h].local)} :
          /\ tables' = out.tables
          /\ inflight' = [inflight EXCEPT ![h].local = out.local]
    /\ UNCHANGED <<now, nCalls, rlConfig, rlVars, advVars, csrfVars, originVars,
                   valVars, rateLimitDisabled, db, httpLast>>

(***************************************************************************)
(* Specification SaveSpec: a database with two invites of one guest each,  *)
(* and MaxSaves submissions in flight in every possible interleaving.      *)
(***************************************************************************)
InviteX == Str(<<"X">>)

InviteY == Str(<<"Y">>)

CodeX == <<"I", "1">>

GuestX == Str(<<"g", "1">>)

GuestY == Str(<<"g", "2">>)

InitialTables ==
    [invites |-> <<[id |-> InviteX, inviteCode |-> CodeX, message |-> Null],
                   [id |-> InviteY, inviteCode |-> <<"I", "2">>, message |-> Null]>>,
     guests  |-> <<[id |-> GuestX, inviteId |-> InviteX, name |-> <<"A", "l">>,
                    status |-> <<"ATTENDING">>, dietNotes |-> Null],
                   [id |-> GuestY, inviteId |-> InviteY, name |-> <<"C", "y">>,
                    status |-> <<"ATTENDING">>, dietNotes |-> Null]>>]

SaveBody(id, name, attending, message, additionalGuests, inviteCode) ==
    [kind |-> "json",
     data |-> [id |-> id, name |-> Str(name), attending |-> Str(<<attending>>),
               dietaryNotes |-> Null, message |-> message,
               additionalGuests |-> additionalGuests, inviteCode |-> inviteCode]]

SaveBodies ==
    {SaveBody(GuestX, <<"A", "l">>, "ATTENDING", Null,
              Arr(<<Obj(Null, Str(<<"B", "o">>), Null)>>), Str(CodeX)),
     SaveBody(GuestX, <<"A", "l", "f">>, "NOT_ATTENDING", Str(<<"h", "i">>), Null,
              Str(CodeX)),
     SaveBody(GuestY, <<"D", "i">>, "NOT_ATTENDING", Null, Null, Str(CodeX)),
     SaveBody(Null, <<"E", "d">>, "ATTENDING", Null, Null, Null),
     SaveBody(Null, <<"E", "d">>, "ATTENDING", Null, Null, Str(<<"I", "9">>)),
     SaveBody(Null, <<"E", "1">>, "ATTENDING", Null, Null, Str(CodeX))}

SaveInit ==
    /\ now = 0
    /\ nCalls = 0
    /\ rateLimitStore = <<>>
    /\ lastCall = None
    /\ callLog = <<>>
    /\ advStore = <<>>
    /\ advAdmitted = <<>>
    /\ advLast = None
    /\ tokens = <<>>
    /\ issued = {}
    /\ nextSweepAt = SweepIntervalMs
    /\ csrfLast = None
    /\ originLast = None
    /\ sanLast = None
    /\ valLast = None
    /\ db = <<>>
    /\ httpLast = None
    /\ inflight = <<>>
    /\ tables = InitialTables
    /\ NoPayload
    /\ rlConfig = None
    /\ advConfig = None
    /\ env = [NODE_ENV |-> Str(<<"production">>), ALLOWED_ORIGINS |-> Null]

SaveBegin == \E h \in 1..MaxSaves, body \in SaveBodies : postBegin(h, body)

SaveStatement == \E h \in 1..MaxSaves : postStep(h)

SaveNext == SaveBegin \/ SaveStatement

SaveSpec == SaveInit /\ [][SaveNext]_vars

SaveTypeOK ==
    /\ \A k \in DOMAIN inflight :
          inflight[k].local.pc \in {"selectInvite", "selectGuests", "updateInvite", "guest",
                                   "insertGuest", "mark", "insertInvite", "newGuest",
                                   "fetch", "done"}
    /\ \A a, b \in DOMAIN tables.guests : a # b => tables.guests[a].id # tables.guests[b].id

\* Handler h has answered 200: it saved a submission for an existing invite
Saved(h) == inflight[h].local.pc = "done" /\ inflight[h].local.status = 200

\* Handler h runs the statement it awaits in this step
StepOfHandler(h) ==
    /\ h \in DOMAIN inflight
    /\ inflight[h].local.pc # "done"
    /\ inflight'[h].local # inflight[h].local

\* The handlers b that saved the same payload as a, after a had answered
SavedAgain(a, b) ==
    /\ a # b
    /\ Saved(a) /\ Saved(b)
    /\ inflight[a].local.body = inflight[b].local.body
    /\ a \in inflight[b].after

\* A statement of a handler that names an existing invite code adds no row
\* to invites
InviteRowsKept ==
    \A h \in DOMAIN inflight :
        (StepOfHandler(h) /\ inflight[h].local.pc # "insertInvite") =>
            [k \in DOMAIN tables'.invites |-> tables'.invites[k].id]
              = [k \in DOMAIN tables.invites |-> tables.invites[k].id]

\* C24: a POST /api/rsvp that names an existing invite code updates that
\* invite and adds no invite row, and the same payload submitted for the
\* code twice in a row leaves the guest rows of the invite that one
\* submission leaves.
C24_DuplicatePrevention ==
    /\ [][InviteRowsKept]_vars
    /\ [](\A a, b \in DOMAIN inflight :
            SavedAgain(a, b) =>
                SeqRange(inflight[b].local.invite.guests)
                  = SeqRange(inflight[a].local.invite.guests))

\* What holds: no invite row is added, and the submission is repeatable
\* when every submitted guest carries the id of a row of the invite
C24_UpdatesExistingInvite ==
    /\ [][InviteRowsKept]_vars
    /\ [](\A a, b \in DOMAIN inflight :
            (SavedAgain(a, b)
               /\ \A k \in DOMAIN inflight[a].local.guests :
                     inflight[a].local.guests[k].id
                       \in SeqRange(inflight[a].local.existingGuestIds)) =>
                SeqRange(inflight[b].local.invite.guests)
                  = SeqRange(inflight[a].local.invite.guests))

\* The second of two equal submissions found a row the first had inserted
C24_Repeated ==
    \E a, b \in DOMAIN inflight :
        /\ SavedAgain(a, b)
        /\ Len(inflight[b].local.invite.guests) > Len(inflight[a].local.invite.guests)

\* The ids of the invites that carry the code
InvitesOfCode(t, code) ==
    {t.invites[k].id : k \in {m \in DOMAIN t.invites : t.invites[m].inviteCode = code}}

\* The rows a statement of a handler for invite code X may not touch
OtherInvitesKept(h) ==
    LET own == InvitesOfCode(tables, inflight[h].local.inviteCode)
    IN  /\ \A k \in DOMAIN tables.invites :
              (k \in DOMAIN tables'.invites /\ tables.invites[k].id \notin own)
                => tables'.invites[k] = tables.invites[k]
        /\ \A k \in DOMAIN tables'.guests \ DOMAIN tables.guests :
              tables'.guests[k].inviteId \in own

OtherGuestsKept(h, columns) ==
    LET own == InvitesOfCode(tables, inflight[h].local.inviteCode)
    IN  \A k \in DOMAIN tables.guests :
            tables.guests[k].inviteId \notin own
              => \A c \in columns : tables'.guests[k][c] = tables.guests[k][c]

GuestColumns == {"id", "inviteId", "name", "status", "dietNotes"}

\* C29: POST /api/rsvp with invite code X writes only to invite X.  It
\* changes the message of invite X only, inserts guest rows of X only, and
\* changes no column of a guest row of another invite, whatever guest ids
\* the payload carries.
C29_WritesOnlyOwnInvite ==
    [][\A h \in DOMAIN inflight :
          (StepOfHandler(h) /\ inflight[h].local.inviteCode # <<>>) =>
              OtherInvitesKept(h) /\ OtherGuestsKept(h, GuestColumns)]_vars

\* What holds: the other invites keep their rows, the inserted guest rows
\* belong to X, and a guest row of another invite keeps every column but
\* its status
C29_OnlyStatusOfOthers ==
    [][\A h \in DOMAIN inflight :
          (StepOfHandler(h) /\ inflight[h].local.inviteCode # <<>>) =>
              OtherInvitesKept(h) /\ OtherGuestsKept(h, GuestColumns \ {"status"})]_vars

\* C30: two POST /api/rsvp requests for one existing invite code that are
\* in flight together leave the message and the guest rows of the invite
\* (names, statuses, dietary notes, row count) as the two requests leave
\* them when one runs after the other, in one of the two orders.
RECURSIVE Run(_, _)
Run(t, l) ==
    IF l.pc = "done" THEN t
    ELSE TheOne({Run(out.tables, out.local) : out \in {SaveStep(t, l)}})

\* The message and the guest rows of the invite with the code, without the
\* row ids: the rows as a bag of [name, status, dietNotes]
InviteContent(t, code) ==
    LET own    == InvitesOfCode(t, code)
        rows   == SelectSeq(t.guests, LAMBDA g : g.inviteId \in own)
        strip(g) == [name |-> g.name, status |-> g.status, dietNotes |-> g.dietNotes]
        kinds  == {strip(rows[k]) : k \in DOMAIN rows}
    IN  [message |-> {t.invites[k].message :
                        k \in {m \in DOMAIN t.invites : t.invites[m].id \in own}},
         guests  |-> [c \in kinds |->
                        Cardinality({k \in DOMAIN rows : strip(rows[k]) = c})]]

\* The tables after the payload of handler a, then that of b, were saved
\* one after the other on the initial tables
Serial(a, b) ==
    Run(Run(InitialTables, SaveLocal(inflight[a].local.body)),
        SaveLocal(inflight[b].local.body))

\* Both handlers saved for the code, and each began before the other ended
InFlightTogether(a, b) ==
    /\ a # b
    /\ Saved(a) /\ Saved(b)
    /\ inflight[a].local.inviteCode = inflight[b].local.inviteCode
    /\ a \notin inflight[b].after
    /\ b \notin inflight[a].after

C30_Serializable ==
    \A a, b \in DOMAIN inflight :
        InFlightTogether(a, b) =>
            InviteContent(tables, inflight[a].local.inviteCode)
              \in {InviteContent(Serial(a, b), inflight[a].local.inviteCode),
                   InviteContent(Serial(b, a), inflight[a].local.inviteCode)}

\* What holds: two handlers that ran one after the other leave the tables
\* of the serial run in that order
C30_SequentialIsSerial ==
    \A a, b \in DOMAIN inflight :
        (a # b /\ inflight[a].local.pc = "done" /\ inflight[b].local.pc = "done"
           /\ a \in inflight[b].after) =>
            tables = Serial(a, b)

====
